---------------------------- MODULE Spec2Model ----------------------------
(***************************************************************************)
(* Model of the non-covalent interaction engine                            *)
(* (mol-model-props/computed/interactions): the FeaturesBuilder and the    *)
(* Features reverse index (features.ts), and the pair scanning loops of    *)
(* links.ts with the halogen-bond tester and the halogen feature providers *)
(* of halogen-bonds.ts, and the link builders of builder.ts.               *)
(*                                                                         *)
(* Arrays are sequences; the 0-based element k of an array a is At(a, k).  *)
(* Coordinates and distances are integers.                                 *)
(***************************************************************************)
EXTENDS Integers, Sequences, FiniteSets, TLC

VARIABLES
    b,          \* the FeaturesBuilder: its seven chunked arrays and `state`
    phase,      \* "building" until getFeatures has been called, then "done"
    features,   \* the Features value returned by getFeatures
    pend,       \* history: the pushMember calls since the last clearState/addState
    cleared,    \* history: the last call other than pushMember was clearState
    discarded,  \* history: positions (1-based) of members pushed and then cleared
    supplied,   \* history: for each feature the builder emitted, the atoms given for it
    lastOp,     \* history: the last call, its arguments and what preceded it
    idx,        \* the createElementsIndex run: its input and its result
    lk,         \* the addUnitLinks / addStructureLinks run: inputs, tester calls, builder
    hb,         \* the halogen-bond tester applied to one pair, in both orders
    ib,         \* an InterLinksBuilder driven through unit-pair cycles, with its history
    pv,         \* the two halogen feature providers run on a unit, in both orders
    ct,         \* a createTester / compute request: its props and the testers created
    fl,         \* an addUnitLinks / addStructureLinks run that may fail, on a used builder
    at,         \* a custom property transform: the properties named and what became of them
    cx          \* a Computation run through runObservable: its context and history

vars == <<b, phase, features, pend, cleared, discarded, supplied, lastOp, idx, lk, hb, ib, pv, ct, fl, at, cx>>

--------------------------------------------------------------------------
(* Bounds *)

\* most members the builder is driven to hold
MaxMembers == 3
\* atoms of the unit are 0 .. MaxAtoms - 1
MaxAtoms == 2
\* most features of a Features.Data handed to createElementsIndex
MaxIdxFeatures == 2
\* most members of a Features.Data handed to createElementsIndex
MaxIdxMembers == 3
\* largest elementsCount handed to createElementsIndex
MaxIdxAtoms == 3

Atoms == 0 .. (MaxAtoms - 1)
\* atom positions handed to pushMember / addOne
Points == { <<0, 0, 0>>, <<1, 2, 4>> }
FeatureTypes == { "HalogenDonor", "HalogenAcceptor" }
FeatureGroups == { "None" }

--------------------------------------------------------------------------
(* Array helpers *)

\* a[k] of a 0-based array
At(a, k) == a[k + 1]

\* a.slice(from, to) of a 0-based array
Slice(a, from, to) == [k \in 1 .. (to - from) |-> a[from + k]]

\* a number divided by a count, kept exact as numerator and denominator
Quot(n, d) == [num |-> n, den |-> d]

\* two exact quotients denote the same number
SameNumber(p, q) == p.num * q.den = q.num * p.den

--------------------------------------------------------------------------
(* FeaturesBuilder.create *)

NewBuilder ==
    [ xCenters |-> <<>>, yCenters |-> <<>>, zCenters |-> <<>>,
      types |-> <<>>, groups |-> <<>>, offsets |-> <<>>, members |-> <<>>,
      state |-> [x |-> 0, y |-> 0, z |-> 0, offset |-> 0, count |-> 0] ]

clearState(bl) ==
    [bl EXCEPT !.state = [x |-> 0, y |-> 0, z |-> 0,
                          offset |-> Len(bl.members), count |-> 0]]

pushMember(bl, x, y, z, member) ==
    [bl EXCEPT !.members = Append(@, member),
               !.state = [@ EXCEPT !.x = @ + x, !.y = @ + y, !.z = @ + z]]

addState(bl, type, group) ==
    LET count == bl.state.count IN
    IF count = 0 THEN bl
    ELSE [bl EXCEPT !.types = Append(@, type),
                    !.groups = Append(@, group),
                    !.xCenters = Append(@, Quot(bl.state.x, count)),
                    !.yCenters = Append(@, Quot(bl.state.y, count)),
                    !.zCenters = Append(@, Quot(bl.state.z, count)),
                    !.offsets = Append(@, bl.state.offset)]

addOne_StateOffset(bl, type, group, x, y, z, member) ==
    [bl EXCEPT !.types = Append(@, type),
               !.groups = Append(@, group),
               !.xCenters = Append(@, Quot(x, 1)),
               !.yCenters = Append(@, Quot(y, 1)),
               !.zCenters = Append(@, Quot(z, 1)),
               !.offsets = Append(@, bl.state.offset),
               !.members = Append(@, member)]

addOne(bl, type, group, x, y, z, member) ==
    [bl EXCEPT !.types = Append(@, type),
               !.groups = Append(@, group),
               !.xCenters = Append(@, Quot(x, 1)),
               !.yCenters = Append(@, Quot(y, 1)),
               !.zCenters = Append(@, Quot(z, 1)),
               !.offsets = Append(@, Len(bl.members)),
               !.members = Append(@, member)]

\* the builder after getFeatures: one more offset, the current member count
getFeaturesBuilder(bl) == [bl EXCEPT !.offsets = Append(@, Len(bl.members))]

\* the Features.Data that getFeatures returns
getFeatures(bl) ==
    LET after == getFeaturesBuilder(bl) IN
    [ x |-> after.xCenters, y |-> after.yCenters, z |-> after.zCenters,
      count |-> Len(after.xCenters),
      types |-> after.types, groups |-> after.groups,
      offsets |-> after.offsets, members |-> after.members ]

NoFeatures ==
    [ x |-> <<>>, y |-> <<>>, z |-> <<>>, count |-> 0, types |-> <<>>,
      groups |-> <<>>, offsets |-> <<>>, members |-> <<>> ]

--------------------------------------------------------------------------
(* Features.createElementsIndex *)

RECURSIVE SumTo(_, _)
\* sizes[0] + ... + sizes[k - 1]
SumTo(sizes, k) == IF k = 0 THEN 0 ELSE SumTo(sizes, k - 1) + sizes[k - 1]

\* first loop: for (i = 0; i < count; ++i) ++bucketSizes[members[i]]
BucketSizes(data, elementsCount) ==
    [a \in 0 .. (elementsCount - 1) |->
        Cardinality({i \in 0 .. (data.count - 1) :
                        i < Len(data.members) /\ At(data.members, i) = a})]

\* second loop: the running sum of the bucket sizes, elementsCount + 1 entries
IndexOffsets(data, elementsCount) ==
    [k \in 1 .. (elementsCount + 1) |->
        SumTo(BucketSizes(data, elementsCount), k - 1)]

\* indices[oa] = i on an Int32Array: a store past the end is dropped
StoreIndex(indices, oa, i) ==
    IF oa < Len(indices) THEN [indices EXCEPT ![oa + 1] = i] ELSE indices

RECURSIVE FillMembers(_, _, _, _, _, _)
\* inner loop over the members j .. jl - 1 of feature i
FillMembers(st, data, offsets, i, j, jl) ==
    IF j >= jl THEN st
    ELSE LET a == At(data.members, j)
             oa == At(offsets, a) + st.bucketFill[a]
         IN FillMembers([indices |-> StoreIndex(st.indices, oa, i),
                         bucketFill |-> [st.bucketFill EXCEPT ![a] = @ + 1]],
                        data, offsets, i, j + 1, jl)

RECURSIVE FillFeatures(_, _, _, _)
\* outer loop over the features i .. count - 1
FillFeatures(st, data, offsets, i) ==
    IF i >= data.count THEN st
    ELSE FillFeatures(FillMembers(st, data, offsets, i,
                                  At(data.offsets, i), At(data.offsets, i + 1)),
                      data, offsets, i + 1)

createElementsIndex(data, elementsCount) ==
    LET offsets == IndexOffsets(data, elementsCount)
        total == At(offsets, elementsCount)
        start == [indices |-> [k \in 1 .. total |-> 0],
                  bucketFill |-> [a \in 0 .. (elementsCount - 1) |-> 0]]
    IN [indices |-> FillFeatures(start, data, offsets, 0).indices,
        offsets |-> offsets]

--------------------------------------------------------------------------
(* Lengths of the link runs.  A length is a whole number of units, with       *)
(* UnitsPerAngstrom units to the Angstrom, so that a cutoff below 1 A and a   *)
(* distance between its square and itself can both be written.                *)

\* units of length per Angstrom
UnitsPerAngstrom == 5
\* most features of the unit of an addUnitLinks run
MaxLinkFeatures == 3
\* most features of unit A of an addStructureLinks run
MaxImageFeatures == 1
\* most features of unit B of an addStructureLinks run
MaxPartnerFeatures == 2
\* most testers handed to a run
MaxTesters == 2

\* const MAX_DISTANCE = 5
MAX_DISTANCE == 5

\* Math.max() of no arguments is -Infinity: below every distance
NegInfinity == -1

\* feature centers lie on a line, at these coordinates
Positions == {0, 1, 5}
\* angleMax handed to HalogenBondsProvider.createTester, in degrees (the default)
AngleMaxDefault == 30
\* translations of unit A's operator relative to unit B's
Translations == {0, 1, 26}

Abs(n) == IF n < 0 THEN 0 - n ELSE n

\* a feature center coordinate as a whole number of units
Coord(q) == q.num \div q.den

--------------------------------------------------------------------------
(* The structure the link runs read: units, alternate locations, residues,  *)
(* valence model and bond angles                                            *)

UnitIds == {0, 1}
AtomKeys == UnitIds \X (0 .. MaxLinkFeatures)

\* a structure whose atoms each lie in a residue of their own, carry no
\* alternate location and are bonded at the optimal angles
LinkStructure ==
    [ valenceModel |-> UnitIds,
      altLoc |-> [k \in AtomKeys |-> ""],
      residueIndex |-> [k \in AtomKeys |-> k[1] * (MaxLinkFeatures + 1) + k[2]],
      angles |-> [k \in AtomKeys |-> [halogen |-> <<180>>, acceptor |-> <<120>>]] ]

\* altLoc(unit, index)
altLoc(structure, unit, index) == structure.altLoc[<<unit.id, index>>]

\* unit.residueIndex[unit.elements[index]]
residueIndex(structure, unit, index) == structure.residueIndex[<<unit.id, index>>]

\* calcAngles(structure, unitA, indexA, unitB, indexB), in degrees: the angles
\* at atom A between its bonded neighbours and atom B
calcAngles(structure, unitA, indexA, unitB, indexB, role) ==
    structure.angles[<<unitA.id, indexA>>][role]

\* degToRad: an angle of k degrees is held as the whole number k
degToRad(deg) == deg

--------------------------------------------------------------------------
(* halogen-bonds.ts *)

isHalogenBond_OneOrder(ti, tj) == ti = "HalogenDonor" /\ tj = "HalogenAcceptor"
isHalogenBond(ti, tj) ==
    \/ (ti = "HalogenAcceptor" /\ tj = "HalogenDonor")
    \/ (ti = "HalogenDonor" /\ tj = "HalogenAcceptor")

OptimalHalogenAngle == degToRad(180)
OptimalAcceptorAngle == degToRad(120)

getOptions(props) ==
    [distanceMax |-> props.distanceMax, angleMax |-> degToRad(props.angleMax)]

\* if (altD && altA && altD !== altA) return; no alternate location is ""
IncompatibleAltLoc_AnyDiffer(altD, altA) == altD # altA
IncompatibleAltLoc(altD, altA) == altD # "" /\ altA # "" /\ altD # altA

\* if (halogenAngles.length !== 1) return
NotSinglyBonded_OnlyUnbonded(halogenAngles) == Len(halogenAngles) = 0
NotSinglyBonded(halogenAngles) == Len(halogenAngles) # 1

\* if (don.unit.residueIndex[...] === acc.unit.residueIndex[...]) return
SameResidue_Never(structure, don, donIndex, acc, accIndex) == FALSE
SameResidue(structure, don, donIndex, acc, accIndex) ==
    residueIndex(structure, don.unit, donIndex) = residueIndex(structure, acc.unit, accIndex)

testHalogenBond(structure, infoA, infoB, opts) ==
    LET typeA == At(infoA.types, infoA.feature)
        typeB == At(infoB.types, infoB.feature)
    IN
    IF ~isHalogenBond(typeA, typeB) THEN "undefined"
    ELSE
    LET don == IF typeA = "HalogenDonor" THEN infoA ELSE infoB
        acc == IF typeA = "HalogenDonor" THEN infoB ELSE infoA
        donIndex == At(don.members, At(don.offsets, don.feature))
        accIndex == At(acc.members, At(acc.offsets, acc.feature))
        altD == altLoc(structure, don.unit, donIndex)
        altA == altLoc(structure, acc.unit, accIndex)
        halogenAngles == calcAngles(structure, don.unit, donIndex, acc.unit, accIndex, "halogen")
        acceptorAngles == calcAngles(structure, acc.unit, accIndex, don.unit, donIndex, "acceptor")
    IN
    IF accIndex = donIndex THEN "undefined"
    ELSE IF IncompatibleAltLoc(altD, altA) THEN "undefined"
    ELSE IF SameResidue(structure, don, donIndex, acc, accIndex) THEN "undefined"
    ELSE IF NotSinglyBonded(halogenAngles) THEN "undefined"
    ELSE IF OptimalHalogenAngle - halogenAngles[1] > opts.angleMax THEN "undefined"
    ELSE IF Len(acceptorAngles) = 0 THEN "undefined"
    ELSE IF \E k \in 1 .. Len(acceptorAngles) :
                OptimalAcceptorAngle - acceptorAngles[k] > opts.angleMax THEN "undefined"
    ELSE "HalogenBond"

\* HalogenBondsProvider.createTester
createTester(props) ==
    [ name |-> "halogen-bonds",
      maxDistanceSq |-> props.distanceMax * props.distanceMax,
      opts |-> getOptions(props),
      type |-> "HalogenBond" ]

\* a LinkTester of another family: it accepts every pair it is given
otherTester(distanceMax, type) ==
    [ name |-> "other",
      maxDistanceSq |-> distanceMax * distanceMax,
      opts |-> getOptions([distanceMax |-> distanceMax, angleMax |-> 0]),
      type |-> type ]

\* a LinkTester whose getType throws when it is given feature throwAt of the
\* second unit, and accepts every other pair
throwingTester(distanceMax, type, throwAt) ==
    [ name |-> "throwing",
      maxDistanceSq |-> distanceMax * distanceMax,
      opts |-> getOptions([distanceMax |-> distanceMax, angleMax |-> 0]),
      type |-> type,
      throwAt |-> throwAt ]

\* tester.getType(structure, infoA, infoB, distanceSq); "throw" when it throws
getType(tester, structure, infoA, infoB, distanceSq) ==
    IF tester.name = "halogen-bonds"
    THEN testHalogenBond(structure, infoA, infoB, tester.opts)
    ELSE IF tester.name = "throwing" /\ infoB.feature = tester.throwAt THEN "throw"
    ELSE tester.type

--------------------------------------------------------------------------
(* builder.ts: IntraLinksBuilder and InterLinksBuilder *)

NewIntraLinksBuilder == [aIndices |-> <<>>, bIndices |-> <<>>, types |-> <<>>]

\* IntraLinksBuilder.add
intraAdd_Overwrite(bd, indexA, indexB, type) ==
    IF \E k \in 1 .. Len(bd.aIndices) : bd.aIndices[k] = indexA /\ bd.bIndices[k] = indexB
    THEN [bd EXCEPT !.types =
            [k \in 1 .. Len(bd.types) |->
                IF bd.aIndices[k] = indexA /\ bd.bIndices[k] = indexB
                THEN type ELSE bd.types[k]]]
    ELSE [ aIndices |-> Append(bd.aIndices, indexA),
           bIndices |-> Append(bd.bIndices, indexB),
           types |-> Append(bd.types, type) ]

intraAdd(bd, indexA, indexB, type) ==
    [ aIndices |-> Append(bd.aIndices, indexA),
      bIndices |-> Append(bd.bIndices, indexB),
      types |-> Append(bd.types, type) ]

\* new IntAdjacencyGraph.EdgeBuilder(vertexCount, xs, ys): one edge per entry of
\* xs / ys, in their order, each stored in the slots of both its vertices
EdgeBuilder(vertexCount, xs, ys) ==
    [ vertexCount |-> vertexCount, edgeCount |-> Len(xs), slotCount |-> Len(xs) + Len(xs),
      xs |-> xs, ys |-> ys ]

\* IntraLinksBuilder.getLinks: edge i of the graph joins aIndices[i] and
\* bIndices[i] and carries types[i]
getLinks(bd, featureCount) ==
    LET builder == EdgeBuilder(featureCount, bd.aIndices, bd.bIndices) IN
    [ vertexCount |-> builder.vertexCount,
      edgeCount |-> builder.edgeCount,
      edges |-> [i \in 1 .. builder.edgeCount |->
                    [a |-> builder.xs[i], b |-> builder.ys[i], type |-> bd.types[i]]] ]

NoGraph == [vertexCount |-> 0, edgeCount |-> 0, edges |-> <<>>]

\* a Map with no entries
EmptyMap == [k \in {} |-> <<>>]

\* addMapEntry(map, a, b)
addMapEntry(map, key, entry) ==
    IF key \in DOMAIN map THEN [map EXCEPT ![key] = Append(@, entry)]
    ELSE [k \in (DOMAIN map) \cup {key} |-> IF k = key THEN <<entry>> ELSE map[k]]

\* UniqueArray.add(array, key, value): appended unless the key is already held
uniqueAdd(array, key) ==
    IF \E k \in 1 .. Len(array) : array[k] = key THEN array ELSE Append(array, key)

NoUnit == [id |-> 0 - 1, t |-> 0]

NewInterLinksBuilder ==
    [ uA |-> NoUnit, uB |-> NoUnit, mapAB |-> EmptyMap, mapBA |-> EmptyMap,
      bondedA |-> <<>>, bondedB |-> <<>>, bondCount |-> 0, map |-> EmptyMap ]

startUnitPair_NoReset(bd, unitA, unitB) == [bd EXCEPT !.uA = unitA, !.uB = unitB]
startUnitPair(bd, unitA, unitB) ==
    [bd EXCEPT !.uA = unitA, !.uB = unitB, !.mapAB = EmptyMap, !.mapBA = EmptyMap,
               !.bondedA = <<>>, !.bondedB = <<>>, !.bondCount = 0]

\* new InteractionsInterLinks.Pair(unitA, unitB, bondCount, bondedIndices, map)
Pair(unitA, unitB, bondCount, bonded, linkMap) ==
    [ unitA |-> unitA, unitB |-> unitB, bondCount |-> bondCount,
      bondedIndices |-> bonded, linkMap |-> linkMap ]

finishUnitPair_Always(bd) ==
    [bd EXCEPT !.map = addMapEntry(
        addMapEntry(bd.map, bd.uA.id, Pair(bd.uA, bd.uB, bd.bondCount, bd.bondedA, bd.mapAB)),
        bd.uB.id, Pair(bd.uB, bd.uA, bd.bondCount, bd.bondedB, bd.mapBA))]

finishUnitPair(bd) ==
    IF bd.bondCount = 0 THEN bd
    ELSE LET first == addMapEntry(bd.map, bd.uA.id,
                         Pair(bd.uA, bd.uB, bd.bondCount, bd.bondedA, bd.mapAB))
         IN [bd EXCEPT !.map = addMapEntry(first, bd.uB.id,
                         Pair(bd.uB, bd.uA, bd.bondCount, bd.bondedB, bd.mapBA))]

\* InterLinksBuilder.add
interAdd_NoReverse(bd, indexA, indexB, type) ==
    [bd EXCEPT !.mapAB = addMapEntry(@, indexA, [indexB |-> indexB, type |-> type]),
               !.bondedA = uniqueAdd(@, indexA),
               !.bondedB = uniqueAdd(@, indexB),
               !.bondCount = @ + 1]

interAdd(bd, indexA, indexB, type) ==
    [bd EXCEPT !.mapAB = addMapEntry(@, indexA, [indexB |-> indexB, type |-> type]),
               !.mapBA = addMapEntry(@, indexB, [indexB |-> indexA, type |-> type]),
               !.bondedA = uniqueAdd(@, indexA),
               !.bondedB = uniqueAdd(@, indexB),
               !.bondCount = @ + 1]

--------------------------------------------------------------------------
(* features.ts: Features.Info, and the spatial lookup of a Features value *)

\* Features.Info(structure, unit, features); .threw when the structure has no
\* valence model for the unit
Info_NoCheck(structure, unit, feats) ==
    [ threw |-> FALSE,
      unit |-> unit, types |-> feats.types, members |-> feats.members,
      offsets |-> feats.offsets, feature |-> 0 - 1 ]

Info(structure, unit, feats) ==
    [ threw |-> unit.id \notin structure.valenceModel,
      unit |-> unit, types |-> feats.types, members |-> feats.members,
      offsets |-> feats.offsets, feature |-> 0 - 1 ]

\* info.feature = f
WithFeature(info, f) == [info EXCEPT !.feature = f]

RECURSIVE Ascending(_)
\* the numbers of a finite set, smallest first
Ascending(S) ==
    IF S = {} THEN <<>>
    ELSE LET least == CHOOSE m \in S : \A n \in S : m <= n
         IN <<least>> \o Ascending(S \ {least})

\* a distance of `dist` units is within a radius given as the quotient of two
\* whole numbers of units
Within(dist, radius) == dist * radius.den <= radius.num

\* lookup3d.find(x, y, z, radius): the features whose center is within radius
\* of the query point, each once, with their squared distances
find(feats, qx, radius) ==
    LET hits == {j \in 0 .. (feats.count - 1) :
                    Within(Abs(Coord(At(feats.x, j)) - qx), radius)}
        indices == Ascending(hits)
    IN [ count |-> Len(indices), indices |-> indices,
         squaredDistances |->
            [r \in 1 .. Len(indices) |->
                (Coord(At(feats.x, indices[r])) - qx) * (Coord(At(feats.x, indices[r])) - qx)] ]

\* lookup3d.boundary.sphere: a sphere around the feature centers
boundarySphere(feats) ==
    IF feats.count = 0 THEN [center |-> 0, radius |-> 0]
    ELSE LET xs == {Coord(At(feats.x, j)) : j \in 0 .. (feats.count - 1)}
             lo == CHOOSE m \in xs : \A n \in xs : m <= n
             hi == CHOOSE m \in xs : \A n \in xs : m >= n
             center == (lo + hi) \div 2
         IN [center |-> center,
             radius |-> IF hi - center > center - lo THEN hi - center ELSE center - lo]

--------------------------------------------------------------------------
(* links.ts: addUnitLinks and addStructureLinks *)

RECURSIVE MaxDistanceSqFrom(_, _)
\* Math.max(...testers.map(t => t.maxDistanceSq)), from tester t on
MaxDistanceSqFrom(testers, t) ==
    IF t > Len(testers) THEN NegInfinity
    ELSE LET rest == MaxDistanceSqFrom(testers, t + 1)
         IN IF testers[t].maxDistanceSq > rest THEN testers[t].maxDistanceSq ELSE rest

maxDistanceSqOf(testers) == MaxDistanceSqFrom(testers, 1)

\* if (j <= i) continue
SkipNeighbor_NoGuard(i, j) == FALSE
SkipNeighbor(i, j) == j <= i

\* if (distanceSq < tester.maxDistanceSq)
InCutoff_Inclusive(distanceSq, tester) == distanceSq <= tester.maxDistanceSq
InCutoff_Reversed(distanceSq, tester) == distanceSq > tester.maxDistanceSq
InCutoff(distanceSq, tester) == distanceSq < tester.maxDistanceSq

RECURSIVE TesterLoop(_, _, _, _, _, _)
\* for (const tester of testers): the getType calls made for one pair, in order,
\* each with the type it returned
TesterLoop(structure, infoA, infoB, distanceSq, testers, t) ==
    IF t > Len(testers) THEN <<>>
    ELSE (IF InCutoff(distanceSq, testers[t])
          THEN << [ tester |-> t, a |-> infoA.feature, b |-> infoB.feature,
                    distanceSq |-> distanceSq,
                    type |-> getType(testers[t], structure, infoA, infoB, distanceSq) ] >>
          ELSE <<>>)
         \o TesterLoop(structure, infoA, infoB, distanceSq, testers, t + 1)

RECURSIVE UnitNeighborLoop(_, _, _, _, _, _)
\* for (let r = 0; r < count; ++r) of addUnitLinks
UnitNeighborLoop(structure, infoA, infoB, found, testers, r) ==
    IF r >= found.count THEN <<>>
    ELSE LET j == At(found.indices, r) IN
         (IF SkipNeighbor(infoA.feature, j) THEN <<>>
          ELSE TesterLoop(structure, infoA, WithFeature(infoB, j),
                          At(found.squaredDistances, r), testers, 1))
         \o UnitNeighborLoop(structure, infoA, infoB, found, testers, r + 1)

RECURSIVE UnitFeatureLoop(_, _, _, _, _, _)
\* for (let i = 0; i < count; ++i) of addUnitLinks; the lookup is asked with
\* maxDistanceSq as its radius
UnitFeatureLoop(structure, infoA, infoB, feats, testers, i) ==
    IF i >= feats.count THEN <<>>
    ELSE LET found == find(feats, Coord(At(feats.x, i)),
                           Quot(maxDistanceSqOf(testers), UnitsPerAngstrom))
         IN UnitNeighborLoop(structure, WithFeature(infoA, i), infoB, found, testers, 0)
            \o UnitFeatureLoop(structure, infoA, infoB, feats, testers, i + 1)

\* a getType call of the run threw
ThrewIn(calls) == \E k \in 1 .. Len(calls) : calls[k].type = "throw"

\* the calls made: nothing runs after the first call that throws
UpToThrow(calls) ==
    IF ThrewIn(calls)
    THEN SubSeq(calls, 1, CHOOSE k \in 1 .. Len(calls) :
                              /\ calls[k].type = "throw"
                              /\ \A h \in 1 .. (k - 1) : calls[h].type # "throw")
    ELSE calls

\* the calls that returned
Returned(calls) ==
    IF ThrewIn(calls) THEN SubSeq(UpToThrow(calls), 1, Len(UpToThrow(calls)) - 1)
    ELSE calls

\* builder.finishUnitPair() follows the loops, with no try / finally around
\* them: it is reached only when no call threw
AfterPairLoops_Finally(bd, threw) == finishUnitPair(bd)
AfterPairLoops(bd, threw) == IF threw THEN bd ELSE finishUnitPair(bd)

RECURSIVE IntraAddAll(_, _, _)
\* if (type) builder.add(i, j, type), for the calls from k on
IntraAddAll(bd, calls, k) ==
    IF k > Len(calls) THEN bd
    ELSE IntraAddAll(IF calls[k].type # "undefined"
                     THEN intraAdd(bd, calls[k].a, calls[k].b, calls[k].type)
                     ELSE bd, calls, k + 1)

RECURSIVE InterAddAll(_, _, _)
InterAddAll(bd, calls, k) ==
    IF k > Len(calls) THEN bd
    ELSE InterAddAll(IF calls[k].type # "undefined"
                     THEN interAdd(bd, calls[k].a, calls[k].b, calls[k].type)
                     ELSE bd, calls, k + 1)

\* addUnitLinks: whether it threw, the getType calls it made, the builder after
addUnitLinks(structure, unit, feats, builder, testers) ==
    LET infoA == Info(structure, unit, feats)
        calls == UnitFeatureLoop(structure, infoA, infoA, feats, testers, 0)
    IN IF infoA.threw
       THEN [threw |-> TRUE, error |-> "valence model required",
             calls |-> <<>>, builder |-> builder]
       ELSE [threw |-> ThrewIn(calls),
             error |-> IF ThrewIn(calls) THEN "tester" ELSE "none",
             calls |-> UpToThrow(calls),
             builder |-> IntraAddAll(builder, Returned(calls), 1)]

\* if (Vec3.squaredDistance(imageA, center) > testDistanceSq) continue, with
\* testDistanceSq = (radius + maxDistanceSq) * (radius + maxDistanceSq)
OutsideSphere(imageA, sphere, maxDistanceSq) ==
    IF maxDistanceSq = NegInfinity THEN FALSE
    ELSE Abs(imageA - sphere.center) * UnitsPerAngstrom
            > sphere.radius * UnitsPerAngstrom + maxDistanceSq

RECURSIVE StructureNeighborLoop(_, _, _, _, _, _)
\* for (let r = 0; r < count; ++r) of addStructureLinks
StructureNeighborLoop(structure, infoA, infoB, found, testers, r) ==
    IF r >= found.count THEN <<>>
    ELSE TesterLoop(structure, infoA, WithFeature(infoB, At(found.indices, r)),
                    At(found.squaredDistances, r), testers, 1)
         \o StructureNeighborLoop(structure, infoA, infoB, found, testers, r + 1)

RECURSIVE StructureFeatureLoop(_, _, _, _, _, _, _, _)
\* for (let i = 0; i < count; ++i) of addStructureLinks
StructureFeatureLoop(structure, infoA, infoB, featsA, featsB, shift, testers, i) ==
    IF i >= featsA.count THEN <<>>
    ELSE LET imageA == Coord(At(featsA.x, i)) + shift
             found == find(featsB, imageA, Quot(MAX_DISTANCE * UnitsPerAngstrom, 1))
         IN (IF OutsideSphere(imageA, boundarySphere(featsB), maxDistanceSqOf(testers))
             THEN <<>>
             ELSE StructureNeighborLoop(structure, WithFeature(infoA, i), infoB,
                                        found, testers, 0))
            \o StructureFeatureLoop(structure, infoA, infoB, featsA, featsB,
                                    shift, testers, i + 1)

\* the translation of inverse(unitB operator) * (unitA operator)
imageTransform(unitA, unitB) == unitA.t - unitB.t

addStructureLinks(structure, unitA, featsA, unitB, featsB, builder, testers) ==
    LET infoA == Info(structure, unitA, featsA)
        infoB == Info(structure, unitB, featsB)
        calls == StructureFeatureLoop(structure, infoA, infoB, featsA, featsB,
                                      imageTransform(unitA, unitB), testers, 0)
    IN IF infoA.threw \/ infoB.threw
       THEN [threw |-> TRUE, error |-> "valence model required",
             calls |-> <<>>, builder |-> builder]
       ELSE [threw |-> ThrewIn(calls),
             error |-> IF ThrewIn(calls) THEN "tester" ELSE "none",
             calls |-> UpToThrow(calls),
             builder |-> AfterPairLoops(
                            InterAddAll(startUnitPair(builder, unitA, unitB),
                                        Returned(calls), 1),
                            ThrewIn(calls))]

--------------------------------------------------------------------------
(* The inputs of the link runs *)

RECURSIVE AddAll(_, _, _)
\* a provider's scan: builder.addOne for the atoms k .. of a unit, atom k being
\* the one of spec[k + 1]
AddAll(bl, atoms, k) ==
    IF k >= Len(atoms) THEN bl
    ELSE AddAll(addOne(bl, atoms[k + 1].type, "None", atoms[k + 1].pos, 0, 0, k),
                atoms, k + 1)

\* the Features of a unit whose atoms are `atoms`
FeaturesOf(atoms) == getFeatures(AddAll(NewBuilder, atoms, 0))

FeatureAtoms == [pos : Positions, type : FeatureTypes]
\* the atoms of unit A stand at the origin of its frame; its operator moves them
ImageAtoms == [pos : {0}, type : FeatureTypes]

\* the testers a run can be given, in the order their providers are listed;
\* distanceMax is in units
TesterChoices ==
    << createTester([distanceMax |-> 2, angleMax |-> AngleMaxDefault]),
       createTester([distanceMax |-> 5, angleMax |-> AngleMaxDefault]),
       otherTester(30, "Ionic") >>

\* the testers of TesterChoices at the positions of picked, in order
TestersAt(picked) ==
    LET upTo[k \in 0 .. Len(TesterChoices)] ==
            IF k = 0 THEN <<>>
            ELSE IF k \in picked THEN Append(upTo[k - 1], TesterChoices[k])
            ELSE upTo[k - 1]
    IN upTo[Len(TesterChoices)]

\* the tester lists of the runs: up to MaxTesters of the testers above
TesterLists ==
    { TestersAt(picked) :
        picked \in {S \in SUBSET (1 .. Len(TesterChoices)) : Cardinality(S) <= MaxTesters} }

NoLinkRun ==
    [ ran |-> "none", unitA |-> NoUnit, unitB |-> NoUnit,
      featuresA |-> NoFeatures, featuresB |-> NoFeatures, testers |-> <<>>,
      threw |-> FALSE, calls |-> <<>>,
      intra |-> NewIntraLinksBuilder, inter |-> NewInterLinksBuilder,
      graph |-> NoGraph ]

--------------------------------------------------------------------------
(* The inputs of the halogen-bond tester *)

\* most bond angles calcAngles returns for an atom
MaxAngles == 2
\* angles at the halogen, in degrees: just outside and just inside angleMax
HalogenAngleChoices == {149, 150}
\* angles at the acceptor, in degrees: below, at and above the tolerated range
AcceptorAngleChoices == {89, 90, 160}
\* alternate location ids; "" is an atom without one
AltLocChoices == {"", "A", "B"}

\* the Features of a unit with two single-atom features of the given types,
\* feature k made of atom k
PairFeatures(type0, type1) ==
    FeaturesOf(<< [pos |-> 0, type |-> type0], [pos |-> 0, type |-> type1] >>)

\* a structure in which atom keyA and atom keyB have the given alternate
\* locations and residues, and every atom the given bond angles
TesterStructure(keyA, altA, resA, keyB, altB, resB, halogenAngles, acceptorAngles) ==
    [ valenceModel |-> UnitIds,
      altLoc |-> [k \in AtomKeys |-> IF k = keyA THEN altA ELSE IF k = keyB THEN altB ELSE ""],
      residueIndex |-> [k \in AtomKeys |-> IF k = keyA THEN resA ELSE IF k = keyB THEN resB
                                           ELSE MaxLinkFeatures + 1 + k[2]],
      angles |-> [k \in AtomKeys |-> [halogen |-> halogenAngles, acceptor |-> acceptorAngles]] ]

NoTesterRun ==
    [ ran |-> FALSE, structure |-> LinkStructure,
      infoA |-> Info(LinkStructure, NoUnit, NoFeatures),
      infoB |-> Info(LinkStructure, NoUnit, NoFeatures),
      tester |-> createTester([distanceMax |-> MAX_DISTANCE, angleMax |-> AngleMaxDefault]),
      typeAB |-> "undefined", typeBA |-> "undefined" ]

--------------------------------------------------------------------------
(* The inputs of the InterLinksBuilder cycles *)

\* most startUnitPair / finishUnitPair cycles a builder is driven through
MaxCycles == 2
\* most add calls made on one builder
MaxPairAdds == 3
\* the units of the cycles, as addStructureLinks hands them over
CycleUnits == { [id |-> u, t |-> 0] : u \in {0, 1, 2} }
\* the links a cycle adds: feature of A, feature of B, interaction type
AddChoices ==
    { [a |-> 0, b |-> 0, type |-> "HalogenBond"], [a |-> 1, b |-> 0, type |-> "HalogenBond"],
      [a |-> 0, b |-> 1, type |-> "HalogenBond"], [a |-> 0, b |-> 0, type |-> "Ionic"] }

\* a fresh builder; .open between startUnitPair and finishUnitPair; history:
\* .adds the add calls since the last startUnitPair, .done the finished cycles
NoCycles ==
    [ bd |-> NewInterLinksBuilder, open |-> FALSE, adds |-> <<>>, done |-> <<>>, total |-> 0 ]

--------------------------------------------------------------------------
(* halogen-bonds.ts: the feature providers *)

\* most atoms of the unit the providers scan
MaxUnitAtoms == 3

halBondElements == {"CL", "BR", "I", "AT"}
X == {"N", "O", "S"}
Y == {"C", "N", "P", "S"}

\* an atom of a unit: its element, the elements of the atoms bonded to it, its
\* coordinates
UnitAtomKinds ==
    { [element |-> "CL", bonded |-> {"C"}], [element |-> "AT", bonded |-> {"C"}],
      [element |-> "F", bonded |-> {"C"}], [element |-> "O", bonded |-> {"C"}],
      [element |-> "O", bonded |-> {"H"}], [element |-> "S", bonded |-> {"H", "N"}],
      [element |-> "C", bonded |-> {"N"}] }

UnitAtomChoices ==
    { [element |-> kind.element, bonded |-> kind.bonded, at |-> point] :
        kind \in UnitAtomKinds, point \in Points }

\* typeSymbol(unit, i)
typeSymbol(unit, i) == At(unit, i).element

\* eachBondedAtom(structure, unit, i, cb) with cb setting flag when the bonded
\* atom's element is in Y
BondedToY_Any(unit, i) == At(unit, i).bonded # {}
BondedToY(unit, i) == \E element \in At(unit, i).bonded : element \in Y

\* if (halBondElements.includes(element))
IsHalogenDonor_AnyHalogen(unit, i) == typeSymbol(unit, i) \in halBondElements \cup {"F"}
IsHalogenDonor(unit, i) == typeSymbol(unit, i) \in halBondElements

RECURSIVE addUnitHalogenDonorsFrom(_, _, _)
\* the loop of addUnitHalogenDonors from atom i on
addUnitHalogenDonorsFrom(unit, bl, i) ==
    IF i >= Len(unit) THEN bl
    ELSE addUnitHalogenDonorsFrom(unit,
            IF IsHalogenDonor(unit, i)
            THEN addOne(bl, "HalogenDonor", "None",
                        At(unit, i).at[1], At(unit, i).at[2], At(unit, i).at[3], i)
            ELSE bl, i + 1)

addUnitHalogenDonors(unit, bl) == addUnitHalogenDonorsFrom(unit, bl, 0)

RECURSIVE addUnitHalogenAcceptorsFrom(_, _, _)
\* the loop of addUnitHalogenAcceptors from atom i on
addUnitHalogenAcceptorsFrom(unit, bl, i) ==
    IF i >= Len(unit) THEN bl
    ELSE addUnitHalogenAcceptorsFrom(unit,
            IF typeSymbol(unit, i) \in X /\ BondedToY(unit, i)
            THEN addOne(bl, "HalogenAcceptor", "None",
                        At(unit, i).at[1], At(unit, i).at[2], At(unit, i).at[3], i)
            ELSE bl, i + 1)

addUnitHalogenAcceptors(unit, bl) == addUnitHalogenAcceptorsFrom(unit, bl, 0)

\* the builders the providers are run on: a new one, and one on which another
\* provider has pushed a member before
PriorBuilders == {NewBuilder, pushMember(NewBuilder, 1, 2, 4, 0)}

NoProviderRun ==
    [ ran |-> FALSE, unit |-> <<>>, prior |-> NewBuilder,
      donors |-> NoFeatures, acceptors |-> NoFeatures,
      donorsFirst |-> NoFeatures, acceptorsFirst |-> NoFeatures ]

--------------------------------------------------------------------------
(* halogen-bonds.ts, interactions.ts: parameters and tester creation *)

\* largest distanceMax, in units and in either sign, a request is made with
MaxConfigDistance == 30
\* angleMax values a request is made with, in degrees
AngleMaxInputs == {0, AngleMaxDefault, 90}

\* HalogenBondsParams: PD.Numeric(4.0, { min: 1, max: 5 }) and
\* PD.Numeric(30, { min: 0, max: 60 }); distances in Angstrom
HalogenBondsParams ==
    [ distanceMax |-> [default |-> 4, min |-> 1, max |-> 5],
      angleMax |-> [default |-> AngleMaxDefault, min |-> 0, max |-> 60] ]

\* PD.getDefaultValues(params), distances in units
getDefaultValues(params) ==
    [ distanceMax |-> params.distanceMax.default * UnitsPerAngstrom,
      angleMax |-> params.angleMax.default ]

\* { ...defaults, ...props } for props that give the fields of `given`
MergeProps(defaults, props, given) ==
    [ f \in DOMAIN defaults |-> IF f \in given THEN props[f] ELSE defaults[f] ]

\* InteractionsProvider.compute(ctx, data, props): the testers computeInteractions
\* is handed the props for
compute(props, given) ==
    LET p == MergeProps(getDefaultValues(HalogenBondsParams), props, given)
    IN [ props |-> p, rejected |-> FALSE, testers |-> <<createTester(p)>> ]

NoRequest ==
    [ op |-> "none", props |-> getDefaultValues(HalogenBondsParams),
      rejected |-> FALSE, testers |-> <<>> ]

--------------------------------------------------------------------------
(* The inputs of the link runs that may fail *)

\* feature centers of these runs: all within every cutoff of each other
NearPositions == {0, 1}
NearAtoms == [pos : NearPositions, type : FeatureTypes]

\* a structure whose valence model holds an entry for the units of `withModel`
StructureWith(withModel) == [LinkStructure EXCEPT !.valenceModel = withModel]

\* one accepting tester, with a throwing tester before it, after it, or alone
FailureTesterLists ==
    { << otherTester(30, "Ionic") >> }
    \cup UNION { { << throwingTester(30, "Metal", k) >>,
                   << otherTester(30, "Ionic"), throwingTester(30, "Metal", k) >>,
                   << throwingTester(30, "Metal", k), otherTester(30, "Ionic") >> } :
                 k \in 0 .. (MaxPartnerFeatures - 1) }

\* an IntraLinksBuilder that already holds a link
UsedIntraLinksBuilder == intraAdd(NewIntraLinksBuilder, 0, 1, "Ionic")

\* an InterLinksBuilder after the finished pair of units 0 and 2, with one link
UsedInterLinksBuilder ==
    finishUnitPair(interAdd(startUnitPair(NewInterLinksBuilder,
                                          [id |-> 0, t |-> 0], [id |-> 2, t |-> 0]),
                            0, 0, "Ionic"))

NoFailureRun ==
    [ ran |-> "none", withModel |-> {}, unitA |-> NoUnit, unitB |-> NoUnit,
      featuresA |-> NoFeatures, featuresB |-> NoFeatures, testers |-> <<>>,
      threw |-> FALSE, error |-> "none", calls |-> <<>>,
      intraBefore |-> NewIntraLinksBuilder, intra |-> NewIntraLinksBuilder,
      interBefore |-> NewInterLinksBuilder, inter |-> NewInterLinksBuilder ]

--------------------------------------------------------------------------
(* The transforms that attach custom properties: attachModelProps and      *)
(* attachStructureProps                                                    *)

\* most properties named in the params of a transform
MaxProps == 3

\* a named property: whether it is attached automatically, and whether its
\* attach task throws
PropChoices == [autoAttach : BOOLEAN, throws : BOOLEAN]

RECURSIVE attachModelPropsFrom(_, _, _)
\* for (const name of names) try { await p.attach(model) } catch (e) { ctx.log.warn }
attachModelPropsFrom(names, k, st) ==
    IF k > Len(names) THEN st
    ELSE attachModelPropsFrom(names, k + 1,
            IF names[k].throws
            THEN [st EXCEPT !.warnings = Append(@, k)]
            ELSE [st EXCEPT !.attached = Append(@, k)])

RECURSIVE attachStructurePropsFrom(_, _, _)
\* for (const name of Object.keys(params)): attach or setProps, with no try
\* around them, so the loop is left at the first attach that throws
attachStructurePropsFrom(names, k, st) ==
    IF k > Len(names) THEN st
    ELSE IF names[k].autoAttach
    THEN IF names[k].throws
         THEN [st EXCEPT !.threw = TRUE]
         ELSE attachStructurePropsFrom(names, k + 1, [st EXCEPT !.attached = Append(@, k)])
    ELSE attachStructurePropsFrom(names, k + 1, [st EXCEPT !.set = Append(@, k)])

NoAttach ==
    [ op |-> "none", names |-> <<>>, attached |-> <<>>, set |-> <<>>,
      warnings |-> <<>>, threw |-> FALSE, completed |-> FALSE ]

\* the apply task of a transform: it returns its object unless the awaited
\* attach function threw
applyTransform(op, names) ==
    LET start == [NoAttach EXCEPT !.op = op, !.names = names]
        st == IF op = "model" THEN attachModelPropsFrom(names, 1, start)
              ELSE attachStructurePropsFrom(names, 1, start)
    IN [st EXCEPT !.completed = ~st.threw]

--------------------------------------------------------------------------
(* Computation: ObservableContext and runObservable *)

\* most updateProgress calls and requiresUpdate reads of a computation
MaxReads == 4
\* most requestAbort calls on a context
MaxAborts == 2

\* the abort of a ProgressUpdate: absent, a boolean, or a callback
AbortInputs == {"undefined", "true", "false", "callback"}

\* new ObservableContext(): abortRequester is the context's own function, which
\* sets abortRequested
NewContext ==
    [ level |-> 0, abortRequested |-> FALSE, abortRequester |-> "own",
      progressRequestAbort |-> "undefined", callbackCalls |-> 0 ]

\* checkAborted: whether it throws Computation.Aborted
checkAborted(c) == c.abortRequested

\* requestAbort: this.abortRequester.call(null); what the requester throws is
\* swallowed.  A callback given by the computation does not reach the private
\* abortRequested flag.
requestAbort(c) ==
    IF c.abortRequester = "own" THEN [c EXCEPT !.abortRequested = TRUE]
    ELSE [c EXCEPT !.callbackCalls = @ + 1]

\* the abortRequester after updateProgress({ abort })
NextAbortRequester(c, abort) ==
    IF abort = "callback" THEN "callback" ELSE c.abortRequester

\* updateProgress({ abort }) when checkAborted did not throw
updateProgress(c, abort) ==
    LET requester == IF abort \in {"true", "false"} THEN c.abortRequester
                     ELSE NextAbortRequester(c, abort)
    IN [c EXCEPT !.abortRequester = requester,
                 !.progressRequestAbort =
                    IF abort \in {"true", "callback"} THEN requester ELSE "undefined"]

started(c) == [c EXCEPT !.level = @ + 1]
finished(c) == [c EXCEPT !.level = @ - 1]

\* a context not yet run; history: .reads the reads made, .aborts the
\* requestAbort calls made, .passedAfterAbort the reads after a requestAbort
\* that did not throw, .finishedCalls the calls of finished(), .lastRead the
\* last read made
NoComputation ==
    [ context |-> NewContext, status |-> "created", reads |-> 0, aborts |-> 0,
      passedAfterAbort |-> 0, finishedCalls |-> 0, lastRead |-> "none" ]

\* a read of the running computation: updateProgress or requiresUpdate.  When
\* checkAborted throws, the computation rejects and the finally block of
\* runObservable calls finished()
ReadContext(run, after) ==
    IF checkAborted(run.context)
    THEN [run EXCEPT !.status = "rejected", !.reads = @ + 1,
                     !.context = finished(run.context), !.finishedCalls = @ + 1]
    ELSE [run EXCEPT !.reads = @ + 1, !.context = after,
                     !.passedAfterAbort = IF run.aborts > 0 THEN @ + 1 ELSE @]

--------------------------------------------------------------------------
(* The builder driven by a provider *)

NoOp ==
    [ op |-> "create", type |-> "None", group |-> "None", pt |-> <<0, 0, 0>>,
      member |-> 0, pend |-> <<>>, cleared |-> FALSE, before |-> NoFeatures,
      stateBefore |-> NewBuilder.state ]

Call(name, type, group, pt, member) ==
    [ op |-> name, type |-> type, group |-> group, pt |-> pt, member |-> member,
      pend |-> pend, cleared |-> cleared, before |-> getFeatures(b),
      stateBefore |-> b.state ]

NoIndexRun == [ran |-> FALSE, data |-> NoFeatures, elementsCount |-> 0,
               result |-> [indices |-> <<>>, offsets |-> <<>>]]

Init ==
    /\ b = NewBuilder
    /\ phase = "building"
    /\ features = NoFeatures
    /\ pend = <<>>
    /\ cleared = FALSE
    /\ discarded = {}
    /\ supplied = <<>>
    /\ lastOp = NoOp
    /\ idx = NoIndexRun
    /\ lk = NoLinkRun
    /\ hb = NoTesterRun
    /\ ib = NoCycles
    /\ pv = NoProviderRun
    /\ ct = NoRequest
    /\ fl = NoFailureRun
    /\ at = NoAttach
    /\ cx = NoComputation

ClearState ==
    /\ phase = "building"
    /\ b' = clearState(b)
    /\ pend' = <<>>
    /\ cleared' = TRUE
    /\ discarded' = discarded \cup {pend[k].pos : k \in 1 .. Len(pend)}
    /\ lastOp' = Call("clearState", "None", "None", <<0, 0, 0>>, 0)
    /\ UNCHANGED <<phase, features, supplied, idx, lk, hb, ib, pv, ct, fl, at, cx>>

PushMember ==
    /\ phase = "building"
    /\ Len(b.members) < MaxMembers
    /\ \E pt \in Points, member \in Atoms :
        /\ b' = pushMember(b, pt[1], pt[2], pt[3], member)
        /\ pend' = Append(pend, [pt |-> pt, member |-> member,
                                 pos |-> Len(b.members) + 1])
        /\ lastOp' = Call("pushMember", "None", "None", pt, member)
    /\ UNCHANGED <<phase, features, cleared, discarded, supplied, idx, lk, hb, ib, pv, ct, fl, at, cx>>

AddState ==
    /\ phase = "building"
    /\ \E type \in FeatureTypes, group \in FeatureGroups :
        /\ b' = addState(b, type, group)
        /\ lastOp' = Call("addState", type, group, <<0, 0, 0>>, 0)
    /\ pend' = <<>>
    /\ cleared' = FALSE
    /\ supplied' = IF b.state.count = 0 THEN supplied
                   ELSE Append(supplied, [k \in 1 .. Len(pend) |-> pend[k].member])
    /\ UNCHANGED <<phase, features, discarded, idx, lk, hb, ib, pv, ct, fl, at, cx>>

AddOne ==
    /\ phase = "building"
    /\ Len(b.members) < MaxMembers
    /\ \E type \in FeatureTypes, group \in FeatureGroups,
          pt \in Points, member \in Atoms :
        /\ b' = addOne(b, type, group, pt[1], pt[2], pt[3], member)
        /\ lastOp' = Call("addOne", type, group, pt, member)
        /\ supplied' = Append(supplied, <<member>>)
    /\ cleared' = FALSE
    /\ UNCHANGED <<phase, features, pend, discarded, idx, lk, hb, ib, pv, ct, fl, at, cx>>

GetFeatures ==
    /\ phase = "building"
    /\ features' = getFeatures(b)
    /\ b' = getFeaturesBuilder(b)
    /\ phase' = "done"
    /\ lastOp' = Call("getFeatures", "None", "None", <<0, 0, 0>>, 0)
    /\ UNCHANGED <<pend, cleared, discarded, supplied, idx, lk, hb, ib, pv, ct, fl, at, cx>>

Next == ClearState \/ PushMember \/ AddState \/ AddOne \/ GetFeatures

Spec == Init /\ [][Next]_vars

--------------------------------------------------------------------------
(* Features.create(elementsCount, data).elementsIndex on well-formed data *)

\* the offsets arrays that split `len` members into `count` non-empty ranges
Partitions(len, count) ==
    { o \in [1 .. (count + 1) -> 0 .. len] :
        /\ o[1] = 0
        /\ o[count + 1] = len
        /\ \A k \in 1 .. count : o[k] < o[k + 1] }

RECURSIVE SeqsUpTo(_, _)
\* the sequences over S of length at most n
SeqsUpTo(S, n) ==
    IF n = 0 THEN { <<>> }
    ELSE LET shorter == SeqsUpTo(S, n - 1)
         IN shorter \cup { Append(q, e) : q \in {r \in shorter : Len(r) = n - 1}, e \in S }

\* Features.Data as the spec's data model describes it: every feature has at
\* least one member and offsets splits members contiguously
WellFormedData(elementsCount) ==
    UNION { { [ x |-> [k \in 1 .. (Len(o) - 1) |-> Quot(0, 1)],
                y |-> [k \in 1 .. (Len(o) - 1) |-> Quot(0, 1)],
                z |-> [k \in 1 .. (Len(o) - 1) |-> Quot(0, 1)],
                count |-> Len(o) - 1,
                types |-> [k \in 1 .. (Len(o) - 1) |-> "HalogenDonor"],
                groups |-> [k \in 1 .. (Len(o) - 1) |-> "None"],
                offsets |-> o, members |-> m ] :
              o \in UNION { Partitions(Len(m), c) : c \in 0 .. MaxIdxFeatures } } :
            m \in SeqsUpTo(0 .. (elementsCount - 1), MaxIdxMembers) }

CreateElementsIndex ==
    /\ ~idx.ran
    /\ \E elementsCount \in 1 .. MaxIdxAtoms :
        \E data \in WellFormedData(elementsCount) :
            idx' = [ran |-> TRUE, data |-> data, elementsCount |-> elementsCount,
                       result |-> createElementsIndex(data, elementsCount)]
    /\ UNCHANGED <<b, phase, features, pend, cleared, discarded, supplied, lastOp, lk, hb, ib, pv, ct, fl, at, cx>>

NextIndex == CreateElementsIndex

SpecIndex == Init /\ [][NextIndex]_vars

--------------------------------------------------------------------------
(* Properties of the FeaturesBuilder *)

RECURSIVE SumCoord(_, _, _)
\* the sum of coordinate c over the first k recorded pushes
SumCoord(pushes, c, k) ==
    IF k = 0 THEN 0 ELSE SumCoord(pushes, c, k - 1) + pushes[k].pt[c]

\* the members of feature i of f
MembersOf(f, i) == Slice(f.members, At(f.offsets, i), At(f.offsets, i + 1))

\* the running state just after clearState
IsReset(bl) == bl.state = clearState(bl).state

\* C1: after clearState, k >= 1 pushMember calls and then addState(type, group)
\* add exactly one feature; getFeatures shows it with that type and group, the
\* pushed members in push order, and the mean of the pushed coordinates as center.
C1_AddStateEmitsFeature ==
    (lastOp.op = "addState" /\ lastOp.cleared /\ Len(lastOp.pend) >= 1) =>
        LET f == getFeatures(b)
            k == Len(lastOp.pend)
            i == f.count - 1
        IN /\ f.count = lastOp.before.count + 1
           /\ At(f.types, i) = lastOp.type
           /\ At(f.groups, i) = lastOp.group
           /\ MembersOf(f, i) = [n \in 1 .. k |-> lastOp.pend[n].member]
           /\ SameNumber(At(f.x, i), Quot(SumCoord(lastOp.pend, 1, k), k))
           /\ SameNumber(At(f.y, i), Quot(SumCoord(lastOp.pend, 2, k), k))
           /\ SameNumber(At(f.z, i), Quot(SumCoord(lastOp.pend, 3, k), k))

\* C2: addState resets the accumulation, so that the pushes it consumed reach no
\* later feature (the running sums, count and offset are as after clearState), and
\* an addState with no pushMember since the last addState or clearState changes
\* nothing that getFeatures shows.
C2_AddStateResets ==
    lastOp.op = "addState" =>
        IF Len(lastOp.pend) >= 1
        THEN IsReset(b)
        ELSE getFeatures(b) = lastOp.before

\* C3: with no accumulation in flight, addOne(type, group, x, y, z, m) and
\* pushMember(x, y, z, m) followed by addState(type, group) lead to the same
\* getFeatures result.
C3_AddOneIsPushThenAddState ==
    (phase = "building" /\ pend = <<>> /\ IsReset(b)) =>
        \A type \in FeatureTypes, group \in FeatureGroups,
           pt \in Points, member \in Atoms :
            getFeatures(addOne(b, type, group, pt[1], pt[2], pt[3], member))
              = getFeatures(addState(pushMember(b, pt[1], pt[2], pt[3], member),
                                     type, group))

\* C4: clearState emits no feature, and the atoms pushed and then cleared are
\* members of no feature of the Features returned by getFeatures.
C4_ClearStateDiscards ==
    /\ lastOp.op = "clearState" => getFeatures(b).count = lastOp.before.count
    /\ phase = "done" =>
        \A p \in discarded : \A i \in 0 .. (features.count - 1) :
            ~(At(features.offsets, i) < p /\ p <= At(features.offsets, i + 1))

\* C5: in the Features returned by getFeatures, offsets has count + 1 entries,
\* starts at 0, never decreases and ends at members.length, and the range of
\* feature i holds exactly the atoms supplied for feature i, at least one.
C5_OffsetsPartitionMembers ==
    (phase = "done" /\ pend = <<>>) =>
        /\ Len(features.offsets) = features.count + 1
        /\ At(features.offsets, 0) = 0
        /\ \A i \in 0 .. (features.count - 1) :
              At(features.offsets, i) <= At(features.offsets, i + 1)
        /\ At(features.offsets, features.count) = Len(features.members)
        /\ Len(supplied) = features.count
        /\ \A i \in 0 .. (features.count - 1) :
              /\ MembersOf(features, i) = supplied[i + 1]
              /\ Len(MembersOf(features, i)) >= 1

--------------------------------------------------------------------------
(* Properties of the reverse index *)

\* how often atom a is a member of feature i of data
Memberships(data, i, a) ==
    Cardinality({j \in At(data.offsets, i) .. (At(data.offsets, i + 1) - 1) :
                    At(data.members, j) = a})

\* how often feature i is listed in the slice of atom a of the index ix
Listings(ix, a, i) ==
    Cardinality({k \in At(ix.offsets, a) .. (At(ix.offsets, a + 1) - 1) :
                    k < Len(ix.indices) /\ At(ix.indices, k) = i})

RECURSIVE TotalMemberships(_, _, _)
\* how often atom a is a member of the features 0 .. i - 1 of data
TotalMemberships(data, i, a) ==
    IF i = 0 THEN 0
    ELSE TotalMemberships(data, i - 1, a) + Memberships(data, i - 1, a)

\* C6: elementsIndex is the inverse of members: the slice of atom a lists each
\* feature once per membership of a in it, and nothing else, whether features
\* have one member or several.
C6_ElementsIndexInvertsMembers ==
    idx.ran =>
        \A a \in 0 .. (idx.elementsCount - 1) :
            /\ At(idx.result.offsets, a + 1) - At(idx.result.offsets, a)
                 = TotalMemberships(idx.data, idx.data.count, a)
            /\ At(idx.result.offsets, a + 1) <= Len(idx.result.indices)
            /\ \A i \in 0 .. (idx.data.count - 1) :
                  Listings(idx.result, a, i) = Memberships(idx.data, i, a)

--------------------------------------------------------------------------
(* The link runs *)

fbVars == <<b, phase, features, pend, cleared, discarded, supplied, lastOp>>

AddUnitLinks ==
    /\ lk.ran = "none"
    /\ \E atoms \in SeqsUpTo(FeatureAtoms, MaxLinkFeatures),
          testers \in TesterLists :
        LET unit == [id |-> 0, t |-> 0]
            feats == FeaturesOf(atoms)
            res == addUnitLinks(LinkStructure, unit, feats, NewIntraLinksBuilder, testers)
        IN lk' = [ ran |-> "intra", unitA |-> unit, unitB |-> unit,
                   featuresA |-> feats, featuresB |-> feats, testers |-> testers,
                   threw |-> res.threw, calls |-> res.calls,
                   intra |-> res.builder, inter |-> NewInterLinksBuilder,
                   graph |-> getLinks(res.builder, feats.count) ]
    /\ UNCHANGED <<fbVars, idx, hb, ib, pv, ct, fl, at, cx>>

AddStructureLinks ==
    /\ lk.ran = "none"
    /\ \E atomsA \in SeqsUpTo(ImageAtoms, MaxImageFeatures),
          atomsB \in SeqsUpTo(FeatureAtoms, MaxPartnerFeatures),
          shift \in Translations,
          testers \in TesterLists :
        LET unitA == [id |-> 0, t |-> shift]
            unitB == [id |-> 1, t |-> 0]
            featsA == FeaturesOf(atomsA)
            featsB == FeaturesOf(atomsB)
            res == addStructureLinks(LinkStructure, unitA, featsA, unitB, featsB,
                                     NewInterLinksBuilder, testers)
        IN lk' = [ ran |-> "inter", unitA |-> unitA, unitB |-> unitB,
                   featuresA |-> featsA, featuresB |-> featsB, testers |-> testers,
                   threw |-> res.threw, calls |-> res.calls,
                   intra |-> NewIntraLinksBuilder, inter |-> res.builder,
                   graph |-> NoGraph ]
    /\ UNCHANGED <<fbVars, idx, hb, ib, pv, ct, fl, at, cx>>

NextLinks == AddUnitLinks \/ AddStructureLinks

SpecLinks == Init /\ [][NextLinks]_vars

--------------------------------------------------------------------------
(* Properties of the link runs *)

\* the squared distance, in unit B's frame, between the centers of feature a of
\* unit A and feature c of unit B of the run
CenterDistanceSq(a, c) ==
    LET d == Coord(At(lk.featuresA.x, a)) + imageTransform(lk.unitA, lk.unitB)
             - Coord(At(lk.featuresB.x, c))
    IN d * d

\* the getType calls of a run that returned an interaction type
Accepted(calls) == {k \in 1 .. Len(calls) : calls[k].type # "undefined"}

\* the links the IntraLinksBuilder holds
IntraLinks == {k \in 1 .. Len(lk.intra.aIndices) : TRUE}

\* the (indexA, indexB, type) entries of the A-to-B map of the InterLinksBuilder
InterEntries ==
    { <<a, k>> \in (DOMAIN lk.inter.mapAB) \X (1 .. (MaxImageFeatures + 1) * (MaxPartnerFeatures + 1) * (MaxTesters + 1)) :
        k <= Len(lk.inter.mapAB[a]) }

C8_NoDuplicateEdges ==
    /\ lk.ran = "intra" =>
        \A k1, k2 \in IntraLinks :
            (/\ lk.intra.aIndices[k1] = lk.intra.aIndices[k2]
             /\ lk.intra.bIndices[k1] = lk.intra.bIndices[k2]
             /\ lk.intra.types[k1] = lk.intra.types[k2]) => k1 = k2
    /\ lk.ran = "inter" =>
        \A e1, e2 \in InterEntries :
            (/\ e1[1] = e2[1]
             /\ lk.inter.mapAB[e1[1]][e1[2]] = lk.inter.mapAB[e2[1]][e2[2]]) => e1 = e2

\* the testers of the run return pairwise different interaction types
DistinctTypes(testers) ==
    \A t1, t2 \in 1 .. Len(testers) : testers[t1].type = testers[t2].type => t1 = t2

\* C8 amended: builder.add is called at most once for a given feature pair and
\* tester in one run, and the builder holds exactly the accepted calls; so no
\* feature pair is added twice with one type when no two testers of the list
\* return the same type.
C8_OneAddPerPairAndTester ==
    lk.ran # "none" =>
        /\ \A k1, k2 \in Accepted(lk.calls) :
              (/\ lk.calls[k1].tester = lk.calls[k2].tester
               /\ {lk.calls[k1].a, lk.calls[k1].b} = {lk.calls[k2].a, lk.calls[k2].b}
               /\ (lk.ran = "inter" => lk.calls[k1].a = lk.calls[k2].a)) => k1 = k2
        /\ lk.ran = "intra" => Len(lk.intra.aIndices) = Cardinality(Accepted(lk.calls))
        /\ lk.ran = "inter" => lk.inter.bondCount = Cardinality(Accepted(lk.calls))
        /\ lk.ran = "inter" => Cardinality(InterEntries) = lk.inter.bondCount
        /\ DistinctTypes(lk.testers) => C8_NoDuplicateEdges

\* C8 happens: two testers of different types both accepted one pair, within a
\* unit and across two units
C8_Witness ==
    /\ lk.ran = "inter"
    /\ DistinctTypes(lk.testers)
    /\ \E k1, k2 \in Accepted(lk.calls) :
          /\ k1 # k2
          /\ lk.calls[k1].a = lk.calls[k2].a
          /\ lk.calls[k1].b = lk.calls[k2].b

\* C9: getType is called for a pair only when the squared distance of the two
\* centers is strictly below the tester's maxDistanceSq, which is distanceMax
\* squared; so no link of a tester's type joins features that are no closer than
\* every such tester's distanceMax.
C9_TestedOnlyWithinCutoff ==
    lk.ran # "none" =>
        /\ \A t \in 1 .. Len(lk.testers) :
              lk.testers[t].maxDistanceSq
                 = lk.testers[t].opts.distanceMax * lk.testers[t].opts.distanceMax
        /\ \A k \in 1 .. Len(lk.calls) :
              /\ lk.calls[k].distanceSq = CenterDistanceSq(lk.calls[k].a, lk.calls[k].b)
              /\ lk.calls[k].distanceSq < lk.testers[lk.calls[k].tester].maxDistanceSq
        /\ \A k \in IntraLinks :
              \E t \in 1 .. Len(lk.testers) :
                  /\ lk.testers[t].type = lk.intra.types[k]
                  /\ CenterDistanceSq(lk.intra.aIndices[k], lk.intra.bIndices[k])
                        < lk.testers[t].maxDistanceSq
        /\ \A e \in InterEntries :
              \E t \in 1 .. Len(lk.testers) :
                  /\ lk.testers[t].type = lk.inter.mapAB[e[1]][e[2]].type
                  /\ CenterDistanceSq(e[1], lk.inter.mapAB[e[1]][e[2]].indexB)
                        < lk.testers[t].maxDistanceSq

\* C9 happens: a donor and an acceptor exactly distanceMax apart were not handed
\* to the halogen-bond tester, while a closer pair of the same run was linked
C9_Witness ==
    /\ lk.ran = "intra"
    /\ Len(lk.testers) = 1
    /\ lk.testers[1].name = "halogen-bonds"
    /\ Len(lk.intra.aIndices) = 1
    /\ \E i, j \in 0 .. (lk.featuresA.count - 1) :
          /\ i < j
          /\ isHalogenBond(At(lk.featuresA.types, i), At(lk.featuresA.types, j))
          /\ CenterDistanceSq(i, j) = lk.testers[1].maxDistanceSq
          /\ \A k \in 1 .. Len(lk.calls) : ~(lk.calls[k].a = i /\ lk.calls[k].b = j)

\* the feature pairs a run linked by a halogen bond
HalogenEdges(calls) ==
    { <<calls[k].a, calls[k].b>> : k \in {n \in Accepted(calls) : calls[n].type = "HalogenBond"} }

\* the cutoffs a run's distanceMax is raised to
WiderChoices(d) ==
    {d + 1, MAX_DISTANCE * UnitsPerAngstrom}

\* the getType calls of the run of lk with distanceMax of tester t set to d
CallsWithDistanceMax(t, d) ==
    LET testers == [lk.testers EXCEPT ![t] =
                        createTester([distanceMax |-> d,
                                      angleMax |-> lk.testers[t].opts.angleMax])]
    IN IF lk.ran = "intra"
       THEN addUnitLinks(LinkStructure, lk.unitA, lk.featuresA,
                         NewIntraLinksBuilder, testers).calls
       ELSE addStructureLinks(LinkStructure, lk.unitA, lk.featuresA, lk.unitB,
                              lk.featuresB, NewInterLinksBuilder, testers).calls

\* C10: with the features, angleMax and the other testers fixed, the halogen-bond
\* edges of a run with distanceMax d1 are among those of the run with any
\* distanceMax d2 >= d1.
C10_CutoffMonotone ==
    lk.ran # "none" =>
        \A t \in 1 .. Len(lk.testers) :
            lk.testers[t].name = "halogen-bonds" =>
                \A d2 \in WiderChoices(lk.testers[t].opts.distanceMax) :
                    HalogenEdges(lk.calls) \subseteq HalogenEdges(CallsWithDistanceMax(t, d2))

\* C10 happens: a run with a halogen-bond edge that gains another one when its
\* distanceMax is raised
C10_Witness ==
    /\ lk.ran = "intra"
    /\ Len(lk.testers) = 1
    /\ lk.testers[1].name = "halogen-bonds"
    /\ HalogenEdges(lk.calls) # {}
    /\ \E d2 \in WiderChoices(lk.testers[1].opts.distanceMax) :
          HalogenEdges(lk.calls) # HalogenEdges(CallsWithDistanceMax(1, d2))

\* C11: in addStructureLinks, every feature i of unit A and feature j of unit B
\* whose squared distance in B's frame is below a tester's maxDistanceSq is
\* handed to that tester's getType; the sphere prune and the lookup radius drop
\* no such pair.
C11_InterPairsAllTested ==
    (lk.ran = "inter" /\ ~lk.threw) =>
        \A i \in 0 .. (lk.featuresA.count - 1), j \in 0 .. (lk.featuresB.count - 1),
           t \in 1 .. Len(lk.testers) :
            CenterDistanceSq(i, j) < lk.testers[t].maxDistanceSq
               => \E k \in 1 .. Len(lk.calls) :
                     /\ lk.calls[k].tester = t
                     /\ lk.calls[k].a = i
                     /\ lk.calls[k].b = j

--------------------------------------------------------------------------
(* The halogen-bond tester applied to a pair of features *)

\* createTester(props).getType(structure, infoA, infoB) and, on the same
\* structure, getType(structure, infoB, infoA)
TestHalogenBond ==
    /\ ~hb.ran
    /\ \E typeA \in FeatureTypes, typeB \in FeatureTypes,
          sameUnit \in BOOLEAN, indexB \in {0, 1},
          altA \in AltLocChoices \ {"B"}, altB \in AltLocChoices, resB \in {0, 1},
          halogenAngles \in SeqsUpTo(HalogenAngleChoices, MaxAngles),
          acceptorAngles \in SeqsUpTo(AcceptorAngleChoices, MaxAngles) :
        LET unitA == [id |-> 0, t |-> 0]
            unitB == IF sameUnit THEN unitA ELSE [id |-> 1, t |-> 0]
            featsA == PairFeatures(typeA, IF sameUnit THEN typeB ELSE typeA)
            featsB == IF sameUnit THEN featsA ELSE PairFeatures(typeB, typeB)
            structure == TesterStructure(<<unitA.id, 0>>, altA, 0, <<unitB.id, indexB>>,
                                         altB, resB, halogenAngles, acceptorAngles)
            infoA == WithFeature(Info(structure, unitA, featsA), 0)
            infoB == WithFeature(Info(structure, unitB, featsB), indexB)
            tester == createTester([distanceMax |-> MAX_DISTANCE, angleMax |-> AngleMaxDefault])
        IN hb' = [ ran |-> TRUE, structure |-> structure, infoA |-> infoA, infoB |-> infoB,
                   tester |-> tester,
                   typeAB |-> getType(tester, structure, infoA, infoB, 0),
                   typeBA |-> getType(tester, structure, infoB, infoA, 0) ]
    /\ UNCHANGED <<fbVars, idx, lk, ib, pv, ct, fl, at, cx>>

NextTester == TestHalogenBond

SpecTester == Init /\ [][NextTester]_vars

--------------------------------------------------------------------------
(* Properties of the halogen-bond tester *)

\* the types of the two features of the tested pair
TestedTypeA == At(hb.infoA.types, hb.infoA.feature)
TestedTypeB == At(hb.infoB.types, hb.infoB.feature)

\* the donor and the acceptor side of the tested pair, when it has both
TestedDon == IF TestedTypeA = "HalogenDonor" THEN hb.infoA ELSE hb.infoB
TestedAcc == IF TestedTypeA = "HalogenDonor" THEN hb.infoB ELSE hb.infoA

\* the atom of a feature info: its unit and the unit index of its first member
AtomOf(info) == <<info.unit.id, At(info.members, At(info.offsets, info.feature))>>

\* the tested pair is a donor and an acceptor, in either order
DonorAcceptorPair == {TestedTypeA, TestedTypeB} = {"HalogenDonor", "HalogenAcceptor"}

\* the angles calcAngles gives at the donor and at the acceptor of the pair
TestedHalogenAngles == hb.structure.angles[AtomOf(TestedDon)].halogen
TestedAcceptorAngles == hb.structure.angles[AtomOf(TestedAcc)].acceptor

\* every check of the tester other than the named one lets the pair through
AnglesInRange ==
    /\ Len(TestedHalogenAngles) = 1
    /\ Abs(180 - TestedHalogenAngles[1]) <= hb.tester.opts.angleMax
    /\ Len(TestedAcceptorAngles) > 0
    /\ \A k \in 1 .. Len(TestedAcceptorAngles) :
          Abs(120 - TestedAcceptorAngles[k]) <= hb.tester.opts.angleMax

\* C12: the halogen-bond tester returns an interaction only for a pair of one
\* HalogenDonor and one HalogenAcceptor, and getType(structure, A, B) equals
\* getType(structure, B, A).
C12_DonorAcceptorSymmetric ==
    hb.ran =>
        /\ hb.typeAB = hb.typeBA
        /\ hb.typeAB # "undefined" => DonorAcceptorPair

\* C12 happens: a pair given acceptor first is accepted in both orders
C12_Witness ==
    /\ hb.ran
    /\ TestedTypeA = "HalogenAcceptor"
    /\ hb.typeAB = "HalogenBond"
    /\ hb.typeBA = "HalogenBond"

\* C13: for every accepted halogen bond the donor atom and the acceptor atom are
\* different atoms of different residues.
C13_DifferentAtomsAndResidues ==
    (hb.ran /\ hb.typeAB # "undefined") =>
        /\ AtomOf(TestedDon) # AtomOf(TestedAcc)
        /\ hb.structure.residueIndex[AtomOf(TestedDon)]
              # hb.structure.residueIndex[AtomOf(TestedAcc)]

\* C13 happens: a donor and an acceptor of one residue, acceptable in every
\* other respect, are not reported
C13_Witness ==
    /\ hb.ran
    /\ DonorAcceptorPair
    /\ AtomOf(TestedDon) # AtomOf(TestedAcc)
    /\ hb.structure.residueIndex[AtomOf(TestedDon)]
          = hb.structure.residueIndex[AtomOf(TestedAcc)]
    /\ hb.structure.altLoc[AtomOf(TestedDon)] = hb.structure.altLoc[AtomOf(TestedAcc)]
    /\ AnglesInRange
    /\ hb.typeAB = "undefined"

\* the tested pair on a structure without alternate locations
WithoutAltLoc ==
    getType(hb.tester, [hb.structure EXCEPT !.altLoc = [k \in AtomKeys |-> ""]],
            hb.infoA, hb.infoB, 0)

\* C14: a donor/acceptor pair whose atoms both have an alternate location, the
\* two differing, is rejected; with one or no alternate location, or two equal
\* ones, the tester answers as it does without alternate locations.
C14_AltLocRule ==
    (hb.ran /\ DonorAcceptorPair) =>
        LET altD == hb.structure.altLoc[AtomOf(TestedDon)]
            altA == hb.structure.altLoc[AtomOf(TestedAcc)]
        IN IF altD # "" /\ altA # "" /\ altD # altA
           THEN hb.typeAB = "undefined"
           ELSE hb.typeAB = WithoutAltLoc

\* C14 happens: a pair with an alternate location on one side only is accepted
C14_Witness ==
    /\ hb.ran
    /\ DonorAcceptorPair
    /\ (hb.structure.altLoc[AtomOf(TestedDon)] = "")
          # (hb.structure.altLoc[AtomOf(TestedAcc)] = "")
    /\ hb.typeAB = "HalogenBond"

\* C15: a pair is accepted only if |180 - halogenAngle| <= angleMax and, for
\* every acceptor angle, |120 - acceptorAngle| <= angleMax.
C15_AbsoluteAngleTolerance ==
    (hb.ran /\ hb.typeAB # "undefined") =>
        /\ \A k \in 1 .. Len(TestedHalogenAngles) :
              Abs(180 - TestedHalogenAngles[k]) <= hb.tester.opts.angleMax
        /\ \A k \in 1 .. Len(TestedAcceptorAngles) :
              Abs(120 - TestedAcceptorAngles[k]) <= hb.tester.opts.angleMax

\* C16: the tester returns no interaction when the donor atom has no bond angle
\* or more than one, and when the acceptor atom has none.
C16_SinglyBondedHalogen ==
    (hb.ran /\ DonorAcceptorPair) =>
        /\ Len(TestedHalogenAngles) # 1 => hb.typeAB = "undefined"
        /\ Len(TestedAcceptorAngles) = 0 => hb.typeAB = "undefined"

\* C16 happens: a halogen with two bond angles, both in range, opposite an
\* acceptor that would otherwise do, is not reported
C16_Witness ==
    /\ hb.ran
    /\ DonorAcceptorPair
    /\ AtomOf(TestedDon)[2] # AtomOf(TestedAcc)[2]
    /\ hb.structure.residueIndex[AtomOf(TestedDon)]
          # hb.structure.residueIndex[AtomOf(TestedAcc)]
    /\ hb.structure.altLoc[AtomOf(TestedDon)] = ""
    /\ TestedHalogenAngles = <<150, 150>>
    /\ TestedAcceptorAngles = <<90>>
    /\ hb.typeAB = "undefined"

--------------------------------------------------------------------------
(* The InterLinksBuilder driven through unit-pair cycles *)

StartUnitPair ==
    /\ ~ib.open
    /\ Len(ib.done) < MaxCycles
    /\ \E unitA \in CycleUnits, unitB \in CycleUnits :
        /\ unitA.id < unitB.id
        /\ ib' = [ib EXCEPT !.bd = startUnitPair(@, unitA, unitB), !.open = TRUE,
                            !.adds = <<>>]
    /\ UNCHANGED <<fbVars, idx, lk, hb, pv, ct, fl, at, cx>>

InterAdd ==
    /\ ib.open
    /\ ib.total < MaxPairAdds
    /\ \E link \in AddChoices :
        ib' = [ib EXCEPT !.bd = interAdd(@, link.a, link.b, link.type),
                         !.adds = Append(@, link), !.total = @ + 1]
    /\ UNCHANGED <<fbVars, idx, lk, hb, pv, ct, fl, at, cx>>

FinishUnitPair ==
    /\ ib.open
    /\ ib' = [ib EXCEPT !.bd = finishUnitPair(@), !.open = FALSE,
                        !.done = Append(@, [unitA |-> ib.bd.uA, unitB |-> ib.bd.uB,
                                            adds |-> ib.adds])]
    /\ UNCHANGED <<fbVars, idx, lk, hb, pv, ct, fl, at, cx>>

NextInter == StartUnitPair \/ InterAdd \/ FinishUnitPair

SpecInter == Init /\ [][NextInter]_vars

--------------------------------------------------------------------------
(* Properties of the InterLinksBuilder *)

\* the finished cycles that added at least one link and that unit u took part in
CyclesOf(u) ==
    {k \in 1 .. Len(ib.done) :
        Len(ib.done[k].adds) > 0 /\ u \in {ib.done[k].unitA.id, ib.done[k].unitB.id}}

\* the Pair records the unit map holds under u
RecordsOf(u) == IF u \in DOMAIN ib.bd.map THEN ib.bd.map[u] ELSE <<>>

\* C17: a finished cycle without add calls leaves the unit map as it was, a
\* finished cycle with one stores one Pair record under unitA.id and one under
\* unitB.id, and only units of such a cycle are keys of the map.
C17_SparseUnitPairs ==
    /\ DOMAIN ib.bd.map = {u \in {c.id : c \in CycleUnits} : CyclesOf(u) # {}}
    /\ \A c \in CycleUnits :
          /\ Len(RecordsOf(c.id)) = Cardinality(CyclesOf(c.id))
          /\ \A k \in 1 .. Len(RecordsOf(c.id)) :
                /\ RecordsOf(c.id)[k].unitA = c
                /\ RecordsOf(c.id)[k].bondCount > 0

\* C17 happens: a cycle without links and then a cycle with links have finished
C17_Witness ==
    /\ Len(ib.done) = 2
    /\ ~ib.open
    /\ ib.done[1].adds = <<>>
    /\ ib.done[2].adds # <<>>
    /\ ib.done[1].unitB # ib.done[2].unitB
    /\ Cardinality(DOMAIN ib.bd.map) = 2

\* how often entry x is in list q
Occurrences(q, x) == Cardinality({k \in 1 .. Len(q) : q[k] = x})

\* the list a direction map holds for feature f
EntriesOf(linkMap, f) == IF f \in DOMAIN linkMap THEN linkMap[f] ELSE <<>>

RECURSIVE TotalEntries(_, _)
\* the number of entries of a direction map over the features of F
TotalEntries(linkMap, F) ==
    IF F = {} THEN 0
    ELSE LET f == CHOOSE x \in F : TRUE
         IN Len(EntriesOf(linkMap, f)) + TotalEntries(linkMap, F \ {f})

\* C18: from startUnitPair to finishUnitPair, (a -> (b, type)) is in the A-to-B
\* map as often as (b -> (a, type)) is in the B-to-A map, namely as often as
\* add(a, b, type) was called; the edge count is the number of add calls and the
\* number of entries of either map; each bonded list holds every added index
\* once; and finishUnitPair records exactly these.
C18_DirectionMapsSymmetric ==
    (ib.open \/ Len(ib.done) > 0) =>
        LET bd == ib.bd
            indicesA == {ib.adds[k].a : k \in 1 .. Len(ib.adds)}
            indicesB == {ib.adds[k].b : k \in 1 .. Len(ib.adds)}
        IN
        /\ \A link \in AddChoices :
              /\ Occurrences(EntriesOf(bd.mapAB, link.a), [indexB |-> link.b, type |-> link.type])
                    = Occurrences(ib.adds, link)
              /\ Occurrences(EntriesOf(bd.mapBA, link.b), [indexB |-> link.a, type |-> link.type])
                    = Occurrences(ib.adds, link)
        /\ bd.bondCount = Len(ib.adds)
        /\ DOMAIN bd.mapAB = indicesA
        /\ DOMAIN bd.mapBA = indicesB
        /\ TotalEntries(bd.mapAB, DOMAIN bd.mapAB) = bd.bondCount
        /\ TotalEntries(bd.mapBA, DOMAIN bd.mapBA) = bd.bondCount
        /\ {bd.bondedA[k] : k \in 1 .. Len(bd.bondedA)} = indicesA
        /\ Len(bd.bondedA) = Cardinality(indicesA)
        /\ {bd.bondedB[k] : k \in 1 .. Len(bd.bondedB)} = indicesB
        /\ Len(bd.bondedB) = Cardinality(indicesB)
        /\ (~ib.open /\ bd.bondCount > 0) =>
              /\ bd.map[bd.uA.id][Len(bd.map[bd.uA.id])]
                    = Pair(bd.uA, bd.uB, bd.bondCount, bd.bondedA, bd.mapAB)
              /\ bd.map[bd.uB.id][Len(bd.map[bd.uB.id])]
                    = Pair(bd.uB, bd.uA, bd.bondCount, bd.bondedB, bd.mapBA)

\* C18 happens: a cycle finished after three adds that share a feature of A
C18_Witness ==
    /\ ~ib.open
    /\ Len(ib.adds) = 3
    /\ Len(ib.bd.bondedA) = 1
    /\ Len(ib.bd.bondedB) = 2
    /\ ib.bd.bondCount = 3

RECURSIVE Distinct(_)
\* the entries of a list, each once, in the order of their first occurrence
Distinct(q) ==
    IF q = <<>> THEN <<>>
    ELSE LET front == Distinct(SubSeq(q, 1, Len(q) - 1))
         IN IF \E k \in 1 .. Len(front) : front[k] = q[Len(q)] THEN front
            ELSE Append(front, q[Len(q)])

\* what one cycle's own add calls give for the side of unit A (or of unit B):
\* the record finishUnitPair is to store for it
OwnRecord(cycle, sideA) ==
    LET near == [k \in 1 .. Len(cycle.adds) |->
                    IF sideA THEN cycle.adds[k].a ELSE cycle.adds[k].b]
        far == [k \in 1 .. Len(cycle.adds) |->
                    IF sideA THEN cycle.adds[k].b ELSE cycle.adds[k].a]
        picked(f) == {k \in 1 .. Len(cycle.adds) : near[k] = f}
        entries(f) == [n \in 1 .. Cardinality(picked(f)) |->
                          LET k == CHOOSE j \in picked(f) :
                                      Cardinality({i \in picked(f) : i < j}) = n - 1
                          IN [indexB |-> far[k], type |-> cycle.adds[k].type]]
    IN [ unitA |-> IF sideA THEN cycle.unitA ELSE cycle.unitB,
         unitB |-> IF sideA THEN cycle.unitB ELSE cycle.unitA,
         bondCount |-> Len(cycle.adds),
         bondedIndices |-> Distinct(near),
         linkMap |-> [f \in {near[k] : k \in 1 .. Len(cycle.adds)} |-> entries(f)] ]

\* C19: the records the unit map holds under a unit are, in the order of the
\* cycles, the ones each finished cycle's own add calls give: no link of another
\* cycle is in them and no later call has changed them.
C19_NoLeakAcrossCycles ==
    \A c \in CycleUnits :
        \A n \in 1 .. Len(RecordsOf(c.id)) :
            \E k \in CyclesOf(c.id) :
                /\ Cardinality({j \in CyclesOf(c.id) : j < k}) = n - 1
                /\ RecordsOf(c.id)[n] = OwnRecord(ib.done[k], ib.done[k].unitA = c)

\* C19 happens: two cycles with different links have finished for one unit
C19_Witness ==
    /\ ~ib.open
    /\ Len(ib.done) = 2
    /\ ib.done[1].unitA = ib.done[2].unitA
    /\ ib.done[1].adds # <<>>
    /\ ib.done[2].adds # <<>>
    /\ ib.done[1].adds # ib.done[2].adds
    /\ Len(RecordsOf(ib.done[1].unitA.id)) = 2

--------------------------------------------------------------------------
(* The halogen feature providers run on one builder, in both orders *)

RunProviders ==
    /\ ~pv.ran
    /\ \E unit \in SeqsUpTo(UnitAtomChoices, MaxUnitAtoms), prior \in PriorBuilders :
        pv' = [ ran |-> TRUE, unit |-> unit, prior |-> prior,
                donors |-> getFeatures(addUnitHalogenDonors(unit, prior)),
                acceptors |-> getFeatures(addUnitHalogenAcceptors(unit, prior)),
                donorsFirst |->
                    getFeatures(addUnitHalogenAcceptors(unit, addUnitHalogenDonors(unit, prior))),
                acceptorsFirst |->
                    getFeatures(addUnitHalogenDonors(unit, addUnitHalogenAcceptors(unit, prior))) ]
    /\ UNCHANGED <<fbVars, idx, lk, hb, ib, ct, fl, at, cx>>

NextProviders == RunProviders

SpecProviders == Init /\ [][NextProviders]_vars

\* feature i of a Features value: its type, group, center and members
FeatureEntry(f, i) ==
    << At(f.types, i), At(f.groups, i), At(f.x, i), At(f.y, i), At(f.z, i), MembersOf(f, i) >>

\* how many features of f are the entry e
EntryCount(f, e) == Cardinality({i \in 0 .. (f.count - 1) : FeatureEntry(f, i) = e})

\* C20: addUnitHalogenDonors then addUnitHalogenAcceptors on one builder, and
\* the two in the opposite order, give Features with the same multiset of
\* (type, group, center, members) entries.
C20_ProvidersOrderInsensitive ==
    pv.ran =>
        /\ pv.donorsFirst.count = pv.acceptorsFirst.count
        /\ \A i \in 0 .. (pv.donorsFirst.count - 1) :
              EntryCount(pv.donorsFirst, FeatureEntry(pv.donorsFirst, i))
                 = EntryCount(pv.acceptorsFirst, FeatureEntry(pv.donorsFirst, i))

\* C20 happens: a unit with a donor after an acceptor, so that the two orders
\* number the features differently
C20_Witness ==
    /\ pv.ran
    /\ pv.donorsFirst.count >= 2
    /\ pv.donorsFirst.types # pv.acceptorsFirst.types
    /\ pv.donorsFirst.members # pv.acceptorsFirst.members

\* the atoms of the unit that satisfy want, in increasing index order
AtomsWhere(want(_)) == Ascending({i \in 0 .. (Len(pv.unit) - 1) : want(At(pv.unit, i))})

\* f holds one feature of the type per atom of `atoms`, in that order, each with
\* the atom as its single member and the atom's coordinates as its center
OneFeaturePerAtom(f, atoms, type) ==
    /\ f.count = Len(atoms)
    /\ \A r \in 1 .. Len(atoms) :
          LET atom == At(pv.unit, atoms[r]) IN
          /\ At(f.types, r - 1) = type
          /\ MembersOf(f, r - 1) = <<atoms[r]>>
          /\ SameNumber(At(f.x, r - 1), Quot(atom.at[1], 1))
          /\ SameNumber(At(f.y, r - 1), Quot(atom.at[2], 1))
          /\ SameNumber(At(f.z, r - 1), Quot(atom.at[3], 1))

IsClBrIAt(atom) == atom.element \in {"CL", "BR", "I", "AT"}

IsBondedNOS(atom) ==
    /\ atom.element \in {"N", "O", "S"}
    /\ atom.bonded \cap {"C", "N", "P", "S"} # {}

\* C25: addUnitHalogenAcceptors adds one single-member HalogenAcceptor feature
\* per N, O or S atom bonded to at least one C, N, P or S atom, and none for any
\* other atom.
C25_OneAcceptorPerBondedNOS ==
    pv.ran => OneFeaturePerAtom(pv.acceptors, AtomsWhere(IsBondedNOS), "HalogenAcceptor")

\* a water oxygen, a carbon bonded to nitrogen and a carbonyl oxygen: only the
\* last yields a feature
C25_Witness ==
    /\ pv.ran
    /\ Len(pv.unit) = 3
    /\ At(pv.unit, 0).element = "O" /\ At(pv.unit, 0).bonded = {"H"}
    /\ At(pv.unit, 1).element = "C"
    /\ At(pv.unit, 2).element = "O" /\ At(pv.unit, 2).bonded = {"C"}
    /\ pv.acceptors.count = 1
    /\ pv.acceptors.members # <<>>
    /\ pv.acceptors.members[Len(pv.acceptors.members)] = 2

--------------------------------------------------------------------------
(* Requests with configured parameters *)

\* HalogenBondsProvider.createTester(props)
CreateTester ==
    /\ ct.op = "none"
    /\ \E d \in (0 - MaxConfigDistance) .. MaxConfigDistance, angle \in AngleMaxInputs :
        LET props == [distanceMax |-> d, angleMax |-> angle]
        IN ct' = [ op |-> "createTester", props |-> props, rejected |-> FALSE,
                   testers |-> <<createTester(props)>> ]
    /\ UNCHANGED <<fbVars, idx, lk, hb, ib, pv, fl, at, cx>>

\* InteractionsProvider.compute(ctx, data, props) with a partial props object
Compute ==
    /\ ct.op = "none"
    /\ \E d \in (0 - MaxConfigDistance) .. MaxConfigDistance,
          given \in SUBSET {"distanceMax", "angleMax"} :
        LET res == compute([distanceMax |-> d, angleMax |-> 90], given)
        IN ct' = [ op |-> "compute", props |-> res.props, rejected |-> res.rejected,
                   testers |-> res.testers ]
    /\ UNCHANGED <<fbVars, idx, lk, hb, ib, pv, fl, at, cx>>

NextConfig == CreateTester \/ Compute

SpecConfig == Init /\ [][NextConfig]_vars

\* distanceMax, in units, lies in the declared range of HalogenBondsParams
InDeclaredRange(d) ==
    /\ d >= HalogenBondsParams.distanceMax.min * UnitsPerAngstrom
    /\ d <= HalogenBondsParams.distanceMax.max * UnitsPerAngstrom

\* C21: a request with a negative distanceMax, or one outside the declared range
\* [1, 5], is rejected with an error and creates no tester with that value.
C21_InvalidConfigurationRejected ==
    (ct.op # "none" /\ ~InDeclaredRange(ct.props.distanceMax)) =>
        /\ ct.rejected
        /\ ct.testers = <<>>

--------------------------------------------------------------------------
(* The link runs that may fail *)

AddUnitLinksTo ==
    /\ fl.ran = "none"
    /\ \E atoms \in SeqsUpTo(NearAtoms, MaxLinkFeatures),
          testers \in FailureTesterLists,
          withModel \in SUBSET UnitIds,
          before \in {NewIntraLinksBuilder, UsedIntraLinksBuilder} :
        LET unit == [id |-> 0, t |-> 0]
            feats == FeaturesOf(atoms)
            res == addUnitLinks(StructureWith(withModel), unit, feats, before, testers)
        IN fl' = [ ran |-> "intra", withModel |-> withModel,
                   unitA |-> unit, unitB |-> unit,
                   featuresA |-> feats, featuresB |-> feats, testers |-> testers,
                   threw |-> res.threw, error |-> res.error, calls |-> res.calls,
                   intraBefore |-> before, intra |-> res.builder,
                   interBefore |-> NewInterLinksBuilder, inter |-> NewInterLinksBuilder ]
    /\ UNCHANGED <<fbVars, idx, lk, hb, ib, pv, ct, at, cx>>

AddStructureLinksTo ==
    /\ fl.ran = "none"
    /\ \E atomsA \in SeqsUpTo(ImageAtoms, MaxImageFeatures),
          atomsB \in SeqsUpTo(NearAtoms, MaxPartnerFeatures),
          testers \in FailureTesterLists,
          withModel \in SUBSET UnitIds,
          before \in {NewInterLinksBuilder, UsedInterLinksBuilder} :
        LET unitA == [id |-> 0, t |-> 0]
            unitB == [id |-> 1, t |-> 0]
            featsA == FeaturesOf(atomsA)
            featsB == FeaturesOf(atomsB)
            res == addStructureLinks(StructureWith(withModel), unitA, featsA,
                                     unitB, featsB, before, testers)
        IN fl' = [ ran |-> "inter", withModel |-> withModel,
                   unitA |-> unitA, unitB |-> unitB,
                   featuresA |-> featsA, featuresB |-> featsB, testers |-> testers,
                   threw |-> res.threw, error |-> res.error, calls |-> res.calls,
                   intraBefore |-> NewIntraLinksBuilder, intra |-> NewIntraLinksBuilder,
                   interBefore |-> before, inter |-> res.builder ]
    /\ UNCHANGED <<fbVars, idx, lk, hb, ib, pv, ct, at, cx>>

NextFailures == AddUnitLinksTo \/ AddStructureLinksTo

SpecFailures == Init /\ [][NextFailures]_vars

\* the last getType call of the run threw
LastCallThrew == fl.calls # <<>> /\ fl.calls[Len(fl.calls)].type = "throw"

\* the records of the map that pair unit a with unit c
PairRecords(map, a, c) ==
    { r \in UNION { {map[k][n] : n \in 1 .. Len(map[k])} : k \in DOMAIN map } :
        r.unitA.id = a /\ r.unitB.id = c }

\* C22: when getType throws during addStructureLinks the error reaches the
\* caller, finishUnitPair does not run, and the link map holds no record for the
\* unit pair, whatever links of the pair were added before the throw.
C22_ThrowingTesterPublishesNothing ==
    (fl.ran = "inter" /\ LastCallThrew) =>
        /\ fl.threw
        /\ fl.error = "tester"
        /\ fl.inter.map = fl.interBefore.map
        /\ PairRecords(fl.inter.map, fl.unitA.id, fl.unitB.id) = {}
        /\ PairRecords(fl.inter.map, fl.unitB.id, fl.unitA.id) = {}

\* a throw after a link of the pair was added, on a builder that holds the
\* records of an earlier pair
C22_Witness ==
    /\ fl.ran = "inter" /\ LastCallThrew
    /\ fl.inter.bondCount > 0
    /\ fl.interBefore = UsedInterLinksBuilder

\* the structure holds no valence model entry for a unit of the run
MissingValenceModel == {fl.unitA.id, fl.unitB.id} \ fl.withModel # {}

\* C28: without a valence model entry for a unit, addUnitLinks and
\* addStructureLinks throw 'valence model required' before any getType call,
\* any add and startUnitPair: both builders are exactly as they were.
C28_ValenceModelRequired ==
    (fl.ran # "none" /\ MissingValenceModel) =>
        /\ fl.threw
        /\ fl.error = "valence model required"
        /\ fl.calls = <<>>
        /\ fl.intra = fl.intraBefore
        /\ fl.inter = fl.interBefore

\* the second unit alone lacks its entry, and the run had a pair to test on a
\* builder that startUnitPair would have reset
C28_Witness ==
    /\ fl.ran = "inter"
    /\ fl.withModel = {fl.unitA.id}
    /\ fl.featuresA.count > 0 /\ fl.featuresB.count > 0
    /\ fl.interBefore = UsedInterLinksBuilder
    /\ startUnitPair(fl.interBefore, fl.unitA, fl.unitB) # fl.interBefore
    /\ fl.threw

--------------------------------------------------------------------------
(* The custom property transforms *)

CustomModelProperties ==
    /\ at.op = "none"
    /\ \E names \in SeqsUpTo(PropChoices, MaxProps) :
        at' = applyTransform("model", names)
    /\ UNCHANGED <<fbVars, idx, lk, hb, ib, pv, ct, fl, cx>>

CustomStructureProperties ==
    /\ at.op = "none"
    /\ \E names \in SeqsUpTo(PropChoices, MaxProps) :
        at' = applyTransform("structure", names)
    /\ UNCHANGED <<fbVars, idx, lk, hb, ib, pv, ct, fl, cx>>

NextAttach == CustomModelProperties \/ CustomStructureProperties

SpecAttach == Init /\ [][NextAttach]_vars

\* the properties of the transform whose attach throws
ThrowingProps == {k \in 1 .. Len(at.names) : at.names[k].autoAttach /\ at.names[k].throws}

\* C23: when attaching a structure property throws, a warning is logged for it,
\* the remaining properties are still attached or set, and the transform
\* completes.
C23_StructurePropFailureLogged ==
    (at.op = "structure" /\ ThrowingProps # {}) =>
        /\ at.completed
        /\ \A k \in ThrowingProps : \E w \in 1 .. Len(at.warnings) : at.warnings[w] = k
        /\ \A k \in (1 .. Len(at.names)) \ ThrowingProps :
              \/ \E n \in 1 .. Len(at.attached) : at.attached[n] = k
              \/ \E n \in 1 .. Len(at.set) : at.set[n] = k

--------------------------------------------------------------------------
(* The intra-unit link graph *)

\* the types of the graph's edges that join features i and j, in edge order
EdgeTypes(i, j) ==
    LET Joins(edge) == edge.a = i /\ edge.b = j
        joining == SelectSeq(lk.graph.edges, Joins)
    IN [n \in 1 .. Len(joining) |-> joining[n].type]

\* the types the testers returned for the pair (i, j), in tester order
AcceptedTypes(i, j) ==
    LET Accepts(call) == call.a = i /\ call.b = j /\ call.type # "undefined"
        accepting == SelectSeq(lk.calls, Accepts)
    IN [n \in 1 .. Len(accepting) |-> accepting[n].type]

FeaturePairs ==
    {pair \in (0 .. (lk.featuresA.count - 1)) \X (0 .. (lk.featuresA.count - 1)) :
        pair[1] < pair[2]}

\* C26 as stated: a pair accepted by several testers has a single edge in the
\* graph of getLinks, carrying the type of the last accepting tester.
C26_LastAcceptedTypeOnly ==
    lk.ran = "intra" =>
        \A pair \in FeaturePairs :
            LET accepted == AcceptedTypes(pair[1], pair[2]) IN
            Len(accepted) >= 2 =>
                EdgeTypes(pair[1], pair[2]) = <<accepted[Len(accepted)]>>

\* C26 amended: every accepted type is retained: the graph of getLinks holds,
\* for each feature pair, one edge per accepting tester, carrying that tester's
\* type, in tester order.
C26_EveryAcceptedTypeKept ==
    lk.ran = "intra" =>
        /\ lk.graph.edgeCount = Cardinality(Accepted(lk.calls))
        /\ \A pair \in FeaturePairs :
              EdgeTypes(pair[1], pair[2]) = AcceptedTypes(pair[1], pair[2])

\* a pair accepted as a halogen bond and as an ionic link, beside another pair
C26_Witness ==
    /\ lk.ran = "intra"
    /\ \E pair \in FeaturePairs :
          EdgeTypes(pair[1], pair[2]) = <<"HalogenBond", "Ionic">>
    /\ \E pair \in FeaturePairs : Len(EdgeTypes(pair[1], pair[2])) = 1

\* C27: in addUnitLinks, every pair of features i < j of the unit whose squared
\* center distance is below a tester's maxDistanceSq is handed to that tester's
\* getType, for every positive distanceMax, those below 1 A included.
C27_IntraPairsAllTested ==
    (lk.ran = "intra" /\ ~lk.threw) =>
        \A pair \in FeaturePairs, t \in 1 .. Len(lk.testers) :
            (/\ lk.testers[t].opts.distanceMax > 0
             /\ CenterDistanceSq(pair[1], pair[2]) < lk.testers[t].maxDistanceSq)
               => \E k \in 1 .. Len(lk.calls) :
                     /\ lk.calls[k].tester = t
                     /\ lk.calls[k].a = pair[1]
                     /\ lk.calls[k].b = pair[2]

--------------------------------------------------------------------------
(* The self-interaction check across units *)

\* C29: a donor of one unit and an acceptor of another unit with the same
\* unit-local member index are not rejected as donor/acceptor to self: when
\* every other check lets the pair through, it is a halogen bond.
C29_SelfCheckUsesUnit ==
    (/\ hb.ran
     /\ DonorAcceptorPair
     /\ TestedDon.unit.id # TestedAcc.unit.id
     /\ AtomOf(TestedDon)[2] = AtomOf(TestedAcc)[2]
     /\ hb.structure.residueIndex[AtomOf(TestedDon)]
           # hb.structure.residueIndex[AtomOf(TestedAcc)]
     /\ ~IncompatibleAltLoc(hb.structure.altLoc[AtomOf(TestedDon)],
                            hb.structure.altLoc[AtomOf(TestedAcc)])
     /\ AnglesInRange)
        => hb.typeAB = "HalogenBond"

--------------------------------------------------------------------------
(* A computation run through runObservable *)

\* runObservable up to the first await of the computation: context.started()
RunObservable ==
    /\ cx.status = "created"
    /\ cx' = [cx EXCEPT !.status = "running", !.context = started(cx.context)]
    /\ UNCHANGED <<fbVars, idx, lk, hb, ib, pv, ct, fl, at>>

\* the computation calls ctx.updateProgress({ abort })
UpdateProgress ==
    /\ cx.status = "running"
    /\ cx.reads < MaxReads
    /\ \E abort \in AbortInputs :
        cx' = [ReadContext(cx, updateProgress(cx.context, abort)) EXCEPT !.lastRead = abort]
    /\ UNCHANGED <<fbVars, idx, lk, hb, ib, pv, ct, fl, at>>

\* the computation reads ctx.requiresUpdate
RequiresUpdate ==
    /\ cx.status = "running"
    /\ cx.reads < MaxReads
    /\ cx' = [ReadContext(cx, cx.context) EXCEPT !.lastRead = "requiresUpdate"]
    /\ UNCHANGED <<fbVars, idx, lk, hb, ib, pv, ct, fl, at>>

\* somebody calls ctx.requestAbort()
RequestAbort ==
    /\ cx.status = "running"
    /\ cx.aborts < MaxAborts
    /\ cx' = [cx EXCEPT !.context = requestAbort(cx.context), !.aborts = @ + 1]
    /\ UNCHANGED <<fbVars, idx, lk, hb, ib, pv, ct, fl, at>>

\* the computation returns: resolve(result), then finished()
Resolve ==
    /\ cx.status = "running"
    /\ cx' = [cx EXCEPT !.status = "resolved", !.context = finished(cx.context),
                        !.finishedCalls = @ + 1]
    /\ UNCHANGED <<fbVars, idx, lk, hb, ib, pv, ct, fl, at>>

NextComputation ==
    RunObservable \/ UpdateProgress \/ RequiresUpdate \/ RequestAbort \/ Resolve

SpecComputation == Init /\ [][NextComputation]_vars

\* C30: once requestAbort() has been called, whatever updateProgress calls came
\* before it, every later updateProgress call and requiresUpdate read throws
\* and the run rejects; finished() runs exactly once per run.
C30_AbortSticky ==
    /\ cx.aborts > 0 => cx.passedAfterAbort = 0
    /\ cx.status \in {"resolved", "rejected"} => cx.finishedCalls = 1

==========================================================================
